---------------------------- MODULE Spec2Model ----------------------------
(***************************************************************************)
(* A model of the fleet-distributed, rate-limited reverse proxy.           *)
(*                                                                         *)
(*  - RateLimiter (server/src/rate/limiter.ts): take / takeGlobal, the     *)
(*    token bucket kept in the coordination store by a Lua script.         *)
(*  - JobQueue (server/src/store/queue.ts), the consumer loop, the         *)
(*    JobWorker and the stop handler (server/src/index.ts, the revision    *)
(*    with the two-phase worker).                                          *)
(*                                                                         *)
(* Token counts are kept in thousandths of a token ("milli-tokens"): with  *)
(* integer rates and integer millisecond timestamps every value the Lua    *)
(* script computes, rate * (now - lastRefill) / 1000, is a multiple of     *)
(* 1/1000, so the arithmetic below is exact.                               *)
(***************************************************************************)
EXTENDS Integers, Sequences, FiniteSets, TLC

---------------------------------------------------------------------------
(* Bounds of the model                                                     *)

MaxBurst == 2
MaxCalls == MaxBurst + 1
MaxTicks == 1
MaxBatchLen == 2
MaxStops == 1
MaxCreates == 4
MaxUpdates == 2
MaxStopCalls == 2
StartSeconds == 2
MaxSecondTicks == 2
MaxStoreCalls == 3
MaxWaits == 2
MaxLogs == 2

(* Program constants                                                       *)

windowMs == 1000
BucketTtlSeconds == 60
CreateRetryDelayMs == 5000
PollDelayMinMs == 2000
PollDelaySpreadMs == 1500
PollCatchDelayMs == 5000

Nil == "nil"
NoData == <<>>
Undefined == "undefined"

Min(a, b) == IF a <= b THEN a ELSE b

---------------------------------------------------------------------------
(* Rate limiter: state                                                     *)

VARIABLES
  clock,      \* the time, in ms (Date.now() of the instances, the store's TTL clock)
  ticks,      \* how many times the clock has advanced
  redisUp,    \* whether the coordination store can be reached
  cfg,        \* the RateLimiter constructor's arguments
  kv,         \* the store's bucket keys: <<>> or <<[data, exp]>>
  lim,        \* per caller: its RateLimiter object and the call it has in flight
  hist,       \* per key, the script executions since the clock last advanced (history)
  lastOk,     \* per key, the last execution that was allowed (history)
  ncalls      \* calls begun so far

rateVars == <<clock, ticks, redisUp, cfg, kv, lim, hist, lastOk, ncalls>>

Cands == {"c1"}
GlobalKey == <<"global:rate">>
CandKey(candidateId) == <<"rate:cand", candidateId>>
Keys == {CandKey(c) : c \in Cands} \cup {GlobalKey}
Callers == {"i1", "i2"}

Rates == {1, 10}
Bursts == 1..MaxBurst
ClockSteps == {100, 1000, BucketTtlSeconds * 1000}

\* The constructor arguments tried: every rate with every burst on each kind of
\* key, the global bucket getting the other rate and the mirrored burst
OtherRate(r) == CHOOSE q \in Rates : q # r
Configs == {[perIdRps |-> r, perIdBurst |-> b,
             globalRps |-> OtherRate(r), globalBurst |-> MaxBurst + 1 - b] :
            r \in Rates, b \in Bursts}

\* JavaScript's a || b on the optional numbers rps and burst
OrDefault(a, b) == IF a = Undefined \/ a = 0 THEN b ELSE a

\* -(-a \div b): math.ceil of a / b for b > 0
CeilDiv(a, b) == -((-a) \div b)

\* The conversion of a Lua number to a Redis integer reply truncates toward zero
Trunc(mt) == IF mt >= 0 THEN mt \div 1000 ELSE -((-mt) \div 1000)

\* tostring(tokens) .. ":" .. tostring(now), and the split on ":" with tonumber.
\* "%.14g" keeps every value of at most 14 significant digits, which multiples
\* of 1/1000 below 10^11 and millisecond timestamps are.
FormatData(tokens, now) == <<tokens, now>>
ParseTokens(data) == data[1]
ParseLastRefill(data) == data[2]

\* A GET that finds a key whatever its expiry
GetNoExpiry(key) == IF kv[key] = <<>> THEN NoData ELSE kv[key][1].data
\* redis.call('GET', key): a key past its expiry is gone
Get(key) == IF kv[key] = <<>> \/ clock >= kv[key][1].exp THEN NoData ELSE kv[key][1].data

\* tokens = math.min(maxTokens, tokens + rate * elapsed), in milli-tokens
Refill(data, now, rate, maxTokens) ==
  LET tokens == IF data = NoData THEN maxTokens * 1000 ELSE ParseTokens(data)
      lastRefill == IF data = NoData THEN now ELSE ParseLastRefill(data)
  IN Min(maxTokens * 1000, tokens + (rate * (now - lastRefill) * 1000) \div windowMs)

\* What a lost decrement would do
ScriptNoDecrement(data, now, rate, maxTokens) ==
  LET tokens == Refill(data, now, rate, maxTokens)
  IN IF tokens >= 1000
       THEN [reply |-> <<1, Trunc(tokens), 0>>, set |-> FormatData(tokens, now)]
       ELSE [reply |-> <<0, Trunc(tokens), CeilDiv((1000 - tokens) * windowMs, rate * 1000)>>,
             set |-> NoData]

\* What the test tokens > 1 in place of tokens >= 1 would do
ScriptStrict(data, now, rate, maxTokens) ==
  LET tokens == Refill(data, now, rate, maxTokens)
  IN IF tokens > 1000
       THEN [reply |-> <<1, Trunc(tokens - 1000), 0>>,
             set |-> FormatData(tokens - 1000, now)]
       ELSE [reply |-> <<0, Trunc(tokens), CeilDiv((1000 - tokens) * windowMs, rate * 1000)>>,
             set |-> NoData]

\* What persisting the old lastRefill instead of now would do
ScriptStaleRefill(data, now, rate, maxTokens) ==
  LET tokens == Refill(data, now, rate, maxTokens)
      lastRefill == IF data = NoData THEN now ELSE ParseLastRefill(data)
  IN IF tokens >= 1000
       THEN [reply |-> <<1, Trunc(tokens - 1000), 0>>,
             set |-> FormatData(tokens - 1000, lastRefill)]
       ELSE [reply |-> <<0, Trunc(tokens), CeilDiv((1000 - tokens) * windowMs, rate * 1000)>>,
             set |-> NoData]

\* What a script that persists the refilled bucket on a denial too would do
ScriptDenialWrites(data, now, rate, maxTokens) ==
  LET tokens == Refill(data, now, rate, maxTokens)
  IN IF tokens >= 1000
       THEN [reply |-> <<1, Trunc(tokens - 1000), 0>>,
             set |-> FormatData(tokens - 1000, now)]
       ELSE [reply |-> <<0, Trunc(tokens), CeilDiv((1000 - tokens) * windowMs, rate * 1000)>>,
             set |-> FormatData(tokens, now)]

\* The Lua script: the reply {allowed, tokens, retryAfterMs} and the value it
\* SETEXes (NoData: nothing is written)
Script(data, now, rate, maxTokens) ==
  LET tokens == Refill(data, now, rate, maxTokens)
  IN IF tokens >= 1000
       THEN [reply |-> <<1, Trunc(tokens - 1000), 0>>,
             set |-> FormatData(tokens - 1000, now)]
       ELSE [reply |-> <<0, Trunc(tokens), CeilDiv((1000 - tokens) * windowMs, rate * 1000)>>,
             set |-> NoData]

\* The rate and the burst a call on key uses: no call site passes rps or burst
RateOf(key) ==
  IF key = GlobalKey THEN OrDefault(Undefined, cfg.globalRps)
                     ELSE OrDefault(Undefined, cfg.perIdRps)
MaxTokensOf(key) ==
  IF key = GlobalKey THEN OrDefault(Undefined, cfg.globalBurst)
                     ELSE OrDefault(Undefined, cfg.perIdBurst)

IdleCall == [pc |-> "idle", key |-> <<>>, now |-> 0]

InitRate ==
  /\ clock = 0
  /\ ticks = 0
  /\ redisUp = TRUE
  /\ cfg \in Configs
  /\ kv = [k \in Keys |-> <<>>]
  /\ lim = [c \in Callers |-> [connected |-> FALSE, call |-> IdleCall,
                               result |-> Nil]]
  /\ hist = [k \in Keys |-> <<>>]
  /\ lastOk = [k \in Keys |-> <<>>]
  /\ ncalls = 0

---------------------------------------------------------------------------
(* Job queue, consumer loop, workers, stop: state                          *)

VARIABLES
  job_queue,    \* the store's list 'job_queue': the JSON strings, oldest first
  adds,         \* per /start request: the addTasks call it has in progress
  cons,         \* per instance: the consumer tick in progress
  workers,      \* per instance: the JobWorkers it has created, in order of creation
  localWorkers, \* per instance: its localWorkers array (indices into its workers)
  stopPending,  \* per instance: STOP messages published and not yet handled
  nstops,       \* broadcastStop calls so far
  upstreamLog,  \* the requests sent to the upstream API (history)
  liveLogs,     \* the events published on 'live_logs' (history)
  popLog,       \* the tags of the tasks getNextTask has returned, in order (history)
  lastAdd,      \* the last addTasks call that ran with nothing in between (history)
  stopDone      \* a STOP has been handled by every instance, no addTasks since (history)

queueVars == <<job_queue, adds, cons, workers, localWorkers, stopPending,
               nstops, upstreamLog, liveLogs, popLog, lastAdd, stopDone>>

---------------------------------------------------------------------------
(* One JobWorker followed step by step: state                              *)

VARIABLES
  jw,           \* the JobWorker: active, applicationId, where its startLoop stands
  isConnected,  \* the JobQueue's isConnected flag, which publishLog tests
  trace,        \* what the worker has done, in order (history)
  ideal         \* every answer so far was the successful one (history)

workerVars == <<jw, isConnected, trace, ideal>>

---------------------------------------------------------------------------
(* Session store and proxy path: state                                     *)

VARIABLES
  nowS,         \* Math.floor(Date.now() / 1000), the store's clock too
  sess,         \* the store's keys sess:cand:<id>: <<>> or <<[session, exp]>>
  sessList,     \* the store's set sess:list
  sessEvents,   \* the events published on 'sess:events' (history)
  reqs,         \* the proxy requests: where each stands in the middleware chain
  sent          \* the requests made upstream by the forwarder (history)

proxyVars == <<nowS, sess, sessList, sessEvents, reqs, sent>>

\* The session store called directly, and the control routes
VARIABLES
  frac,         \* the milliseconds of Date.now() within the second nowS
  pauseKeys,    \* the store's keys pause:cand:<id>: <<>> or <<[until, exp]>>
  lastUp,       \* per identity: what the last upsert was given (history)
  lastPause,    \* per identity: the pausedUntil of the pause in force (history)
  seen,         \* what the last read of the store returned and left (history)
  ctl,          \* the control routes: the publisher, the last request (history)
  storeCalls    \* how many calls of the store have been made

storeVars == <<frac, pauseKeys, lastUp, lastPause, seen, ctl, storeCalls>>

\* The log stream
VARIABLES
  streams,      \* per GET /stream request: where its handler stands, its logSub
  streamLog          \* the messages published on 'live_logs', in order (history)

streamVars == <<streams, streamLog>>

vars == <<rateVars, queueVars, workerVars, proxyVars, storeVars, streamVars>>

\* What the actions of one part leave alone
notRateVars == <<queueVars, workerVars, proxyVars, storeVars, streamVars>>
notQueueVars == <<rateVars, workerVars, proxyVars, storeVars, streamVars>>
notWorkerVars == <<rateVars, queueVars, proxyVars, storeVars, streamVars>>
notProxyVars == <<rateVars, queueVars, workerVars, storeVars, streamVars>>
notStoreVars == <<rateVars, queueVars, workerVars, streamVars>>
notStreamVars == <<rateVars, queueVars, workerVars, proxyVars, storeVars>>

Insts == {"n1", "n2"}
AddCalls == {"s1", "s2"}
Null == <<>>

\* The task a /start request makes of its session and its i-th job: the jobs
\* alternate between the two regions, each request has a candidate of its own
JobId(i) == IF i % 2 = 1 THEN <<"JOB-US", i>> ELSE <<"JOB-CA", i>>
Task(a, i) ==
  [jobId |-> JobId(i), scheduleId |-> <<"SCH", i>>,
   candidateId |-> IF a = "s1" THEN "c1" ELSE "c2",
   authToken |-> IF a = "s1" THEN "tok-c1" ELSE "tok-c2",
   cookieHeader |-> IF a = "s1" THEN "sid=1" ELSE ""]

\* The batches a /start request may submit: its first n tasks, n in 0..MaxBatchLen
Batches(a) == {[i \in 1..n |-> Task(a, i)] : n \in 0..MaxBatchLen}

\* JSON.stringify of a task and JSON.parse of the string
Stringify(task) ==
  <<"{", task.jobId, task.scheduleId, task.candidateId, task.authToken,
    task.cookieHeader, "}">>
Parse(str) ==
  [jobId |-> str[2], scheduleId |-> str[3], candidateId |-> str[4],
   authToken |-> str[5], cookieHeader |-> str[6]]

\* The list element a task of a batch becomes; the tag (batch, index) is history
Element(task, b, i) == [str |-> Stringify(task), tag |-> <<b, i>>]
RECURSIVE ElementsFrom(_, _, _)
ElementsFrom(batch, b, i) ==
  IF i > Len(batch) THEN <<>>
  ELSE <<Element(batch[i], b, i)>> \o ElementsFrom(batch, b, i + 1)

\* What getNextTask returns for a popped element: the parsed task (with its tag)
Returned(el) == [task |-> Parse(el.str), tag |-> el.tag]
RECURSIVE ReturnedAll(_)
ReturnedAll(q) == IF q = <<>> THEN <<>> ELSE <<Returned(Head(q))>> \o ReturnedAll(Tail(q))

\* A DEL that does not happen: the batch is appended to what is there
DelSkipped(q) == q
\* DEL job_queue
Del(q) == <<>>

\* RPUSH job_queue el
RPush(q, el) == Append(q, el)

\* An LPOP that takes from the wrong end, and one that leaves the element
LPopNewest(q) == IF q = <<>> THEN Null ELSE <<q[Len(q)]>>
LPopPeek(q) == q
\* LPOP job_queue: the reply (Null on an empty list) and the list left
LPopReply(q) == IF q = <<>> THEN Null ELSE <<Head(q)>>
LPopRest(q) == IF q = <<>> THEN <<>> ELSE Tail(q)

IdleAdd == [pc |-> "idle", batch |-> <<>>, id |-> 0, i |-> 0, clean |-> FALSE, replaced |-> FALSE]
DoneAdd == [IdleAdd EXCEPT !.pc = "done"]
\* The batch number of a /start request (history)
BatchId(a) == IF a = "s1" THEN 1 ELSE 2
IdleCons == [pc |-> "idle", reply |-> Null]
NoAdd == [valid |-> FALSE, Y |-> <<>>, got |-> <<>>, replaced |-> FALSE]

InitQueue ==
  /\ job_queue = <<>>
  /\ adds = [a \in AddCalls |-> IdleAdd]
  /\ cons = [n \in Insts |-> IdleCons]
  /\ workers = [n \in Insts |-> <<>>]
  /\ localWorkers = [n \in Insts |-> <<>>]
  /\ stopPending = [n \in Insts |-> 0]
  /\ nstops = 0
  /\ upstreamLog = {}
  /\ liveLogs = {}
  /\ popLog = <<>>
  /\ lastAdd = NoAdd
  /\ stopDone = FALSE

---------------------------------------------------------------------------
(* Rate limiter: actions                                                   *)

\* Time passes
Tick ==
  /\ ticks < MaxTicks
  /\ \E d \in ClockSteps : clock' = clock + d
  /\ ticks' = ticks + 1
  /\ hist' = [k \in Keys |-> <<>>]
  /\ UNCHANGED <<redisUp, cfg, kv, lim, lastOk, ncalls>>
  /\ UNCHANGED notRateVars

\* Time passes between calls: a moment, most of a second, the rest of the
\* bucket's time to live, all of it; the executions so far are remembered
WaitSteps == {100, 900, BucketTtlSeconds * 1000 - 100, BucketTtlSeconds * 1000}
Wait ==
  /\ ticks < MaxWaits
  /\ \E d \in WaitSteps : clock' = clock + d
  /\ ticks' = ticks + 1
  /\ UNCHANGED <<redisUp, cfg, kv, lim, hist, lastOk, ncalls>>
  /\ UNCHANGED notRateVars

\* The coordination store becomes unreachable, or reachable again
StoreDown ==
  /\ redisUp
  /\ redisUp' = FALSE
  /\ UNCHANGED <<clock, ticks, cfg, kv, lim, hist, lastOk, ncalls>>
  /\ UNCHANGED notRateVars

StoreUp ==
  /\ ~redisUp
  /\ redisUp' = TRUE
  /\ UNCHANGED <<clock, ticks, cfg, kv, lim, hist, lastOk, ncalls>>
  /\ UNCHANGED notRateVars

\* await this.connect(): a no-op when connected; else client.connect(), which
\* rejects when the store cannot be reached. Then now = Date.now() and the
\* script is sent.
Begin(c, key) ==
  /\ lim[c].call.pc = "idle"
  /\ IF lim[c].connected \/ redisUp
       THEN lim' = [lim EXCEPT ![c].connected = TRUE,
                               ![c].call = [pc |-> "eval", key |-> key, now |-> clock],
                               ![c].result = Nil]
       ELSE \* connect() is outside the try: the call rejects
            lim' = [lim EXCEPT ![c].call = IdleCall,
                               ![c].result = "raised"]
CallBegin(c, key) ==
  /\ ncalls < MaxCalls
  /\ ncalls' = ncalls + 1
  /\ Begin(c, key)
  /\ UNCHANGED <<clock, ticks, redisUp, cfg, kv, hist, lastOk>>
  /\ UNCHANGED notRateVars

take(c, candidateId) == CallBegin(c, CandKey(candidateId))

takeGlobal(c) == CallBegin(c, GlobalKey)

\* client.eval(lua, ...): the store runs the script atomically, or the eval
\* fails and the catch allows the request
Eval(c) ==
  /\ lim[c].call.pc = "eval"
  /\ LET key == lim[c].call.key
         now == lim[c].call.now
         data == Get(key)
         out == Script(data, now, RateOf(key), MaxTokensOf(key))
     IN IF redisUp
          THEN /\ kv' = IF out.set = NoData THEN kv
                        ELSE [kv EXCEPT ![key] = <<[data |-> out.set,
                                                    exp |-> clock + BucketTtlSeconds * 1000]>>]
               /\ hist' = [hist EXCEPT ![key] = Append(@,
                             [now |-> now,
                              at |-> clock,
                              racing |-> \E d \in Callers \ {c} :
                                           lim[d].call.pc = "eval" /\ lim[d].call.key = key,
                              prev |-> IF lastOk[key] # <<>> /\ clock < lastOk[key][1].at + BucketTtlSeconds * 1000
                                         THEN lastOk[key] ELSE <<>>,
                              seen |-> Refill(data, now, RateOf(key), MaxTokensOf(key)),
                              ok |-> out.reply[1] = 1,
                              retryAfterMs |-> out.reply[3]])]
               /\ lastOk' = IF out.reply[1] = 1
                              THEN [lastOk EXCEPT ![key] =
                                      <<[tokens |-> Refill(data, now, RateOf(key), MaxTokensOf(key)) - 1000,
                                         now |-> now, at |-> clock]>>]
                              ELSE lastOk
               /\ lim' = [lim EXCEPT ![c].call = IdleCall,
                                     ![c].result = IF out.reply[1] = 1 THEN "allowed" ELSE "denied"]
          ELSE /\ lim' = [lim EXCEPT ![c].call = IdleCall,
                                     ![c].result = "allowed_on_error"]
               /\ UNCHANGED <<kv, hist, lastOk>>
  /\ UNCHANGED <<clock, ticks, redisUp, cfg, ncalls>>
  /\ UNCHANGED notRateVars

---------------------------------------------------------------------------
(* Job queue: actions                                                      *)

AddInProgress(a) == adds[a].pc = "push"

\* addTasks(tasks), up to the DEL: await this.client.del('job_queue')
addTasksBegin(a, batch) ==
  /\ adds[a].pc = "idle"
  /\ job_queue' = Del(job_queue)
  /\ LET alone == \A o \in AddCalls : ~AddInProgress(o)
         replaced == job_queue # <<>>
     IN /\ adds' = [o \in AddCalls |->
                      IF o = a
                        THEN IF batch = <<>> THEN DoneAdd
                             ELSE [pc |-> "push", batch |-> batch, id |-> BatchId(a),
                                   i |-> 1, clean |-> alone, replaced |-> replaced]
                        ELSE [adds[o] EXCEPT !.clean = FALSE]]
        /\ lastAdd' = IF batch = <<>> /\ alone
                        THEN [valid |-> TRUE, Y |-> <<>>, got |-> <<>>, replaced |-> replaced]
                        ELSE NoAdd
  /\ stopDone' = FALSE
  /\ UNCHANGED <<cons, workers, localWorkers, stopPending, nstops,
                 upstreamLog, liveLogs, popLog>>
  /\ UNCHANGED notQueueVars

\* addTasks(tasks), one turn of the loop: await this.client.rPush(...); the call
\* returns after the last one
addTasksPush(a) ==
  /\ adds[a].pc = "push"
  /\ LET c == adds[a]
         el == Element(c.batch[c.i], c.id, c.i)
         last == c.i = Len(c.batch)
     IN /\ job_queue' = RPush(job_queue, el)
        /\ adds' = [adds EXCEPT ![a] = IF last THEN DoneAdd ELSE [c EXCEPT !.i = c.i + 1]]
        /\ lastAdd' = IF last /\ c.clean
                        THEN [valid |-> TRUE, Y |-> ReturnedAll(ElementsFrom(c.batch, c.id, 1)),
                              got |-> <<>>, replaced |-> c.replaced]
                        ELSE lastAdd
  /\ UNCHANGED <<cons, workers, localWorkers, stopPending, nstops,
                 upstreamLog, liveLogs, popLog, stopDone>>
  /\ UNCHANGED notQueueVars

\* new JobWorker(...): startLoop runs to its first await, the create call
NewWorker(taskData, tag) ==
  [task |-> taskData, tag |-> tag, active |-> TRUE, alive |-> TRUE,
   pc |-> "create", applicationId |-> Null]

\* A request the worker sends upstream with fetch: no take, no takeGlobal
WorkerRequest(n, w, op) ==
  [via |-> "worker", id |-> <<n, w>>, op |-> op, takeOk |-> FALSE, takeGlobalOk |-> FALSE]

\* One tick of the consumer loop, up to the reply of getNextTask's LPOP; with no
\* task the callback ends there
ConsumerTick(n) ==
  /\ cons[n].pc = "idle"
  /\ LET reply == LPopReply(job_queue)
         result == IF reply = Null THEN Null ELSE <<Returned(reply[1])>>
     IN /\ job_queue' = LPopRest(job_queue)
        /\ cons' = [cons EXCEPT ![n] = [pc |-> IF reply = Null THEN "idle" ELSE "got",
                                        reply |-> reply]]
        /\ popLog' = IF reply = Null THEN popLog ELSE Append(popLog, reply[1].tag)
        /\ lastAdd' = IF lastAdd.valid
                           /\ ~(result = Null /\ lastAdd.got # <<>>
                                /\ lastAdd.got[Len(lastAdd.got)] = Null)
                        THEN [lastAdd EXCEPT !.got = Append(@, result)]
                        ELSE lastAdd
        /\ adds' = [o \in AddCalls |-> [adds[o] EXCEPT !.clean = FALSE]]
  /\ UNCHANGED <<workers, localWorkers, stopPending, nstops,
                 upstreamLog, liveLogs, stopDone>>
  /\ UNCHANGED notQueueVars

\* The rest of the tick: a worker is created for the task and kept in localWorkers
ConsumerResume(n) ==
  /\ cons[n].pc = "got"
  /\ cons' = [cons EXCEPT ![n] = IdleCons]
  /\ LET taskData == Parse(cons[n].reply[1].str)
         w == Len(workers[n]) + 1
     IN /\ workers' = [workers EXCEPT ![n] = Append(@, NewWorker(taskData, cons[n].reply[1].tag))]
        /\ localWorkers' = [localWorkers EXCEPT ![n] = Append(@, w)]
        /\ upstreamLog' = upstreamLog \cup {WorkerRequest(n, w, "create")}
  /\ UNCHANGED <<job_queue, adds, stopPending, nstops, liveLogs, popLog,
                 lastAdd, stopDone>>
  /\ UNCHANGED notQueueVars

\* An instance that has a task in hand or a worker dies and is started again:
\* its workers and its tick are gone
Crash(n) ==
  /\ cons[n].pc = "got" \/ \E w \in DOMAIN workers[n] : workers[n][w].alive
  /\ workers' = [workers EXCEPT ![n] =
                   [w \in DOMAIN workers[n] |->
                      [workers[n][w] EXCEPT !.alive = FALSE, !.active = FALSE, !.pc = "gone"]]]
  /\ localWorkers' = [localWorkers EXCEPT ![n] = <<>>]
  /\ cons' = [cons EXCEPT ![n] = IdleCons]
  /\ stopPending' = [stopPending EXCEPT ![n] = 0]
  /\ UNCHANGED <<job_queue, adds, nstops, upstreamLog, liveLogs, popLog, lastAdd, stopDone>>
  /\ UNCHANGED notQueueVars

NextQueue ==
  \/ \E a \in AddCalls : \E batch \in Batches(a) : addTasksBegin(a, batch)
  \/ \E a \in AddCalls : addTasksPush(a)
  \/ \E n \in Insts : ConsumerTick(n)
  \/ \E n \in Insts : ConsumerResume(n)
  \/ \E n \in Insts : Crash(n)

---------------------------------------------------------------------------
(* JobWorker and the stop broadcast: actions                               *)

\* What the upstream may answer to the create call and to the update call
CreateResponses == {"200 with id", "200 without id", "200 not json", "429", "500", "network error"}
\* The responses that make the call throw: caught inside the call
Throws(resp) == resp \in {"200 not json", "network error"}
UpdateResponses == {"200 no errors", "200 with errors", "200 not json", "429", "500", "network error"}

\* The create call that never yields an id
createApplicationNoId(resp) == Null

\* createApplication: the application id, or Null
createApplication(resp) == IF resp = "200 with id" THEN <<"APP">> ELSE Null
\* updateApplication: whether the job is confirmed
updateApplication(resp) == resp = "200 no errors"

LogEvent(n, w, type, what) == [from |-> <<n, w>>, type |-> type, what |-> what]

Running(n, w) == w \in DOMAIN workers[n] /\ workers[n][w].alive

\* The create call returns. Without an id the 5 s delay starts; with one the
\* loop ends, and an active worker goes on to its first update call
CreateReturns(n, w, resp) ==
  /\ Running(n, w)
  /\ workers[n][w].pc = "create"
  /\ LET me == workers[n][w]
         appId == createApplication(resp)
     IN /\ workers' = [workers EXCEPT ![n][w] =
             IF appId = Null THEN [me EXCEPT !.pc = "create delay"]
             ELSE IF ~me.active THEN [me EXCEPT !.applicationId = appId, !.pc = "returned"]
             ELSE [me EXCEPT !.applicationId = appId, !.pc = "update"]]
        /\ liveLogs' = liveLogs \cup
             (IF appId # Null THEN {LogEvent(n, w, "success", "created")}
              ELSE IF Throws(resp) THEN {LogEvent(n, w, "error", "create")}
              ELSE {})
        /\ upstreamLog' = upstreamLog \cup
             (IF appId # Null /\ me.active THEN {WorkerRequest(n, w, "update")} ELSE {})
  /\ UNCHANGED <<job_queue, adds, cons, localWorkers, stopPending, nstops, popLog,
                 lastAdd, stopDone>>
  /\ UNCHANGED notQueueVars

\* The 5 s delay after a failed create ends: while (this.active && !applicationId)
CreateDelayEnds(n, w) ==
  /\ Running(n, w)
  /\ workers[n][w].pc = "create delay"
  /\ workers' = [workers EXCEPT ![n][w].pc = IF workers[n][w].active THEN "create" ELSE "returned"]
  /\ upstreamLog' = upstreamLog \cup
       (IF workers[n][w].active THEN {WorkerRequest(n, w, "create")} ELSE {})
  /\ UNCHANGED <<job_queue, adds, cons, localWorkers, stopPending, nstops, liveLogs,
                 popLog, lastAdd, stopDone>>
  /\ UNCHANGED notQueueVars

\* The update call returns: confirmed, the worker publishes, sets active = false
\* and returns; else the poll delay starts
UpdateReturns(n, w, resp) ==
  /\ Running(n, w)
  /\ workers[n][w].pc = "update"
  /\ IF updateApplication(resp)
       THEN /\ workers' = [workers EXCEPT ![n][w].active = FALSE, ![n][w].pc = "returned"]
            /\ liveLogs' = liveLogs \cup {LogEvent(n, w, "success", "confirmed")}
       ELSE /\ workers' = [workers EXCEPT ![n][w].pc = "poll delay"]
            /\ UNCHANGED liveLogs
  /\ UNCHANGED <<job_queue, adds, cons, localWorkers, stopPending, nstops, upstreamLog,
                 popLog, lastAdd, stopDone>>
  /\ UNCHANGED notQueueVars

\* The poll delay ends: while (this.active)
PollDelayEnds(n, w) ==
  /\ Running(n, w)
  /\ workers[n][w].pc = "poll delay"
  /\ workers' = [workers EXCEPT ![n][w].pc = IF workers[n][w].active THEN "update" ELSE "returned"]
  /\ upstreamLog' = upstreamLog \cup
       (IF workers[n][w].active THEN {WorkerRequest(n, w, "update")} ELSE {})
  /\ UNCHANGED <<job_queue, adds, cons, localWorkers, stopPending, nstops, liveLogs,
                 popLog, lastAdd, stopDone>>
  /\ UNCHANGED notQueueVars

\* A stop() that leaves the flag as it is
stopForgets(worker) == worker

\* A stop() that flips the flag
stopToggle(worker) == [worker EXCEPT !.active = ~@]

\* stop()
stop(worker) == [worker EXCEPT !.active = FALSE]

\* POST /stop: broadcastStop() publishes STOP to every listening instance
broadcastStop ==
  /\ nstops < MaxStops
  /\ nstops' = nstops + 1
  /\ stopPending' = [n \in Insts |-> stopPending[n] + 1]
  /\ UNCHANGED <<job_queue, adds, cons, workers, localWorkers, upstreamLog, liveLogs,
                 popLog, lastAdd, stopDone>>
  /\ UNCHANGED notQueueVars

InLocalWorkers(n, w) == \E i \in DOMAIN localWorkers[n] : localWorkers[n][i] = w

\* The onStop handler of an instance: localWorkers.forEach(w => w.stop());
\* localWorkers.length = 0
onStop(n) ==
  /\ stopPending[n] > 0
  /\ stopPending' = [stopPending EXCEPT ![n] = @ - 1]
  /\ workers' = [workers EXCEPT ![n] =
                   [w \in DOMAIN workers[n] |->
                      IF InLocalWorkers(n, w) THEN stop(workers[n][w]) ELSE workers[n][w]]]
  /\ localWorkers' = [localWorkers EXCEPT ![n] = <<>>]
  /\ stopDone' = (stopDone \/ \A m \in Insts : stopPending'[m] = 0)
  /\ UNCHANGED <<job_queue, adds, cons, nstops, upstreamLog, liveLogs, popLog, lastAdd>>
  /\ UNCHANGED notQueueVars

\* The fleet: one /start request, the consumer loops, the workers, /stop
NextFleet ==
  \/ \E batch \in Batches("s1") : addTasksBegin("s1", batch)
  \/ addTasksPush("s1")
  \/ \E n \in Insts : ConsumerTick(n)
  \/ \E n \in Insts : ConsumerResume(n)
  \/ \E n \in Insts : Crash(n)
  \/ \E n \in Insts : \E w \in DOMAIN workers[n] : \E resp \in CreateResponses :
       CreateReturns(n, w, resp)
  \/ \E n \in Insts : \E w \in DOMAIN workers[n] : CreateDelayEnds(n, w)
  \/ \E n \in Insts : \E w \in DOMAIN workers[n] : \E resp \in UpdateResponses :
       UpdateReturns(n, w, resp)
  \/ \E n \in Insts : \E w \in DOMAIN workers[n] : PollDelayEnds(n, w)
  \/ broadcastStop
  \/ \E n \in Insts : onStop(n)

---------------------------------------------------------------------------
(* One JobWorker followed step by step: actions                            *)

NoWorker == [active |-> FALSE, pc |-> "none", applicationId |-> Null, domain |-> ""]

InitWorkerRest ==
  /\ jw = NoWorker
  /\ isConnected = TRUE
  /\ trace = <<>>
  /\ ideal = TRUE

\* const domain = this.jobId.includes('JOB-US') ? ... : ...
Domain(jobId) == IF jobId[1] = "JOB-US" THEN "hiring.amazon.com" ELSE "hiring.amazon.ca"

\* What the worker does, as entries of the trace
Call(op) == [kind |-> op, type |-> "", ms |-> 0, sent |-> FALSE]
Delay(ms) == [kind |-> "delay", type |-> "", ms |-> ms, sent |-> FALSE]
StopCall == [kind |-> "stop", type |-> "", ms |-> 0, sent |-> FALSE]
\* jobQueue.publishLog(...): published on 'live_logs' if (this.isConnected)
publishLog(type) == [kind |-> "log", type |-> type, ms |-> 0, sent |-> isConnected]

Count(seq, kind) == Cardinality({i \in 1..Len(seq) : seq[i].kind = kind})

\* The delays of the polling loop: 2000 + Math.random() * 1500
PollDelays == {PollDelayMinMs, PollDelayMinMs + PollDelaySpreadMs - 1}

\* The three tests of startLoop on the worker's fields
CreateLoopAlways(me) == me.active
CreateLoopTest(me) == me.active /\ me.applicationId = Null
ExitTest(me) == ~me.active \/ me.applicationId = Null
PollLoopAlways(me) == TRUE
PollLoopTest(me) == me.active

\* if (!applicationId) await the 5 s timer
MustWaitNever(appId) == FALSE
MustWait(appId) == appId = Null

\* try { ... } catch in createApplication
CreateCatchesNothing == FALSE
CreateCatches == TRUE

\* What the create call comes to: an id, nothing, a caught error, or a throw
\* that leaves createApplication
createOutcome(resp) ==
  IF Throws(resp) THEN (IF CreateCatches THEN "caught" ELSE "raised")
  ELSE IF createApplication(resp) # Null THEN "id" ELSE "nothing"

\* From the top of the create loop to the next await or to the return: the
\* worker after it and what it adds to the trace
Advance(me) ==
  IF CreateLoopTest(me) THEN [jw |-> [me EXCEPT !.pc = "create"], did |-> <<Call("create")>>]
  ELSE IF ExitTest(me) THEN [jw |-> [me EXCEPT !.pc = "returned"], did |-> <<>>]
  ELSE IF PollLoopTest(me) THEN [jw |-> [me EXCEPT !.pc = "update"], did |-> <<Call("update")>>]
  ELSE [jw |-> [me EXCEPT !.pc = "returned"], did |-> <<>>]

\* From the top of the polling loop
AdvancePoll(me) ==
  IF PollLoopTest(me) THEN [jw |-> [me EXCEPT !.pc = "update"], did |-> <<Call("update")>>]
  ELSE [jw |-> [me EXCEPT !.pc = "returned"], did |-> <<>>]

\* The calls a step may still start
WithinBounds(did) ==
  /\ Count(trace \o did, "create") <= MaxCreates
  /\ Count(trace \o did, "update") <= MaxUpdates

\* new JobWorker(...) for a dequeued task: active = true and startLoop runs to
\* its first await, the create call
InitWorker ==
  /\ \E i \in 1..2 :
       jw = [active |-> TRUE, pc |-> "create", applicationId |-> Null,
             domain |-> Domain(JobId(i))]
  /\ isConnected \in BOOLEAN
  /\ trace = <<Call("create")>>
  /\ ideal = TRUE

\* The confirmed branch: this.active = false; return
ConfirmedKeepsPolling(me) == [me EXCEPT !.pc = "poll delay"]
Confirmed(me) == [me EXCEPT !.active = FALSE, !.pc = "returned"]

\* The create call returns
JwCreateReturns(resp) ==
  /\ jw.pc = "create"
  /\ LET out == createOutcome(resp)
         appId == IF out = "id" THEN createApplication(resp) ELSE Null
         logs == IF out = "id" THEN <<publishLog("success")>>
                 ELSE IF out = "caught" THEN <<publishLog("error")>> ELSE <<>>
         me == [jw EXCEPT !.applicationId = appId]
     IN /\ ideal' = (ideal /\ resp = "200 with id")
        /\ IF out = "raised"
             THEN /\ jw' = [jw EXCEPT !.pc = "raised"]
                  /\ trace' = trace
             ELSE IF MustWait(appId)
               THEN /\ jw' = [me EXCEPT !.pc = "create delay"]
                    /\ trace' = trace \o logs \o <<Delay(CreateRetryDelayMs)>>
               ELSE /\ WithinBounds(logs \o Advance(me).did)
                    /\ jw' = Advance(me).jw
                    /\ trace' = trace \o logs \o Advance(me).did
  /\ UNCHANGED isConnected
  /\ UNCHANGED notWorkerVars

\* The 5 s timer fires
JwCreateDelayEnds ==
  /\ jw.pc = "create delay"
  /\ WithinBounds(Advance(jw).did)
  /\ jw' = Advance(jw).jw
  /\ trace' = trace \o Advance(jw).did
  /\ UNCHANGED <<isConnected, ideal>>
  /\ UNCHANGED notWorkerVars

\* The update call returns. updateApplication catches everything, so the catch
\* of the polling loop is never entered
JwUpdateReturns(resp) ==
  /\ jw.pc = "update"
  /\ ideal' = (ideal /\ resp = "200 no errors")
  /\ IF updateApplication(resp)
       THEN /\ jw' = Confirmed(jw)
            /\ trace' = Append(trace, publishLog("success"))
       ELSE \E ms \in PollDelays :
            /\ jw' = [jw EXCEPT !.pc = "poll delay"]
            /\ trace' = Append(trace, Delay(ms))
  /\ UNCHANGED isConnected
  /\ UNCHANGED notWorkerVars

\* The timer of the polling loop fires
JwPollDelayEnds ==
  /\ jw.pc = "poll delay"
  /\ WithinBounds(AdvancePoll(jw).did)
  /\ jw' = AdvancePoll(jw).jw
  /\ trace' = trace \o AdvancePoll(jw).did
  /\ UNCHANGED <<isConnected, ideal>>
  /\ UNCHANGED notWorkerVars

\* Somebody calls stop() on the worker, whatever it is doing
JwStop ==
  /\ Count(trace, "stop") < MaxStopCalls
  /\ jw' = stop(jw)
  /\ trace' = Append(trace, StopCall)
  /\ UNCHANGED <<isConnected, ideal>>
  /\ UNCHANGED notWorkerVars

NextWorker ==
  \/ \E resp \in CreateResponses : JwCreateReturns(resp)
  \/ JwCreateDelayEnds
  \/ \E resp \in UpdateResponses : JwUpdateReturns(resp)
  \/ JwPollDelayEnds
  \/ JwStop

\* stop() has been called on the worker
Stopped == Count(trace, "stop") > 0

\* The worker against an upstream that answers every call in the end, and that
\* gives a worker which is not stopped an application id at its MaxCreates-th
\* create call at the latest and the confirmation at its MaxUpdates-th update
\* call at the latest
CreateAnswers ==
  \E resp \in CreateResponses :
    /\ Stopped \/ Count(trace, "create") < MaxCreates \/ resp = "200 with id"
    /\ JwCreateReturns(resp)
UpdateAnswers ==
  \E resp \in UpdateResponses :
    /\ Stopped \/ Count(trace, "update") < MaxUpdates \/ resp = "200 no errors"
    /\ JwUpdateReturns(resp)

NextLive ==
  \/ CreateAnswers
  \/ JwCreateDelayEnds
  \/ UpdateAnswers
  \/ JwPollDelayEnds
  \/ JwStop

\* Every call returns and every timer fires
Fairness ==
  /\ WF_<<jw, isConnected, trace, ideal>>(CreateAnswers)
  /\ WF_<<jw, isConnected, trace, ideal>>(JwCreateDelayEnds)
  /\ WF_<<jw, isConnected, trace, ideal>>(UpdateAnswers)
  /\ WF_<<jw, isConnected, trace, ideal>>(JwPollDelayEnds)

---------------------------------------------------------------------------
(* Session store and proxy path: definitions                               *)

Identities == {"c1", "c2"}
ReqIds == {"r1", "r2"}

\* Strings that are searched or compared by suffix are sequences of pieces
HostUS == <<"hiring", ".", "ama", "zon", ".", "com">>
HostCA == <<"hiring", ".", "ama", "zon", ".", "ca">>
Amazon == <<"ama", "zon">>

\* s.includes(sub) and s.endsWith(sub)
Includes(str, sub) ==
  \E i \in 1..(Len(str) - Len(sub) + 1) : SubSeq(str, i, i + Len(sub) - 1) = sub
EndsWith(str, sub) ==
  Len(sub) <= Len(str) /\ SubSeq(str, Len(str) - Len(sub) + 1, Len(str)) = sub
\* s.replace(/^\./, '')
StripDot(str) == IF str # <<>> /\ str[1] = "." THEN Tail(str) ELSE str

\* An optional number is <<>> (undefined) or <<n>>; JavaScript's truthiness of it
Truthy(opt) == opt # <<>> /\ opt[1] # 0

\* The cookies of the model: name, owner's value, domain, expires
CookieOf(cand, name, domain, expires) ==
  [name |-> name, value |-> <<cand, name>>, domain |-> domain, path |-> "",
   expires |-> expires]

\* cookies.filter(...).map(...) of normalizeCookies, at time now
KeptByNormalize(cookie, now) ==
  /\ ~(Truthy(cookie.expires) /\ cookie.expires[1] < now)
  /\ cookie.name # "" /\ cookie.value # <<>> /\ cookie.domain # <<>>
WithDefaults(cookie) == [cookie EXCEPT !.path = IF @ = "" THEN "/" ELSE @]
normalizeCookies(cookies, now) ==
  LET kept == SelectSeq(cookies, LAMBDA c : KeptByNormalize(c, now))
  IN [i \in 1..Len(kept) |-> WithDefaults(kept[i])]

\* The filter of serializeCookies on the domain
RelevantCookie(cookie, domain) ==
  LET cookieDomain == StripDot(cookie.domain)
      requestDomain == StripDot(domain)
  IN EndsWith(requestDomain, cookieDomain) \/ cookieDomain = requestDomain

\* The filter of serializeCookies on the expiry
NotExpired(cookie, now) == ~Truthy(cookie.expires) \/ cookie.expires[1] > now

\* serializeCookies(cookies, domain) at time now: the name=value pairs, in the
\* order of the jar, which join('; ') strings together
serializeCookies(cookies, domain, now) ==
  LET relevantCookies == SelectSeq(cookies, LAMBDA c : RelevantCookie(c, domain))
      live == SelectSeq(relevantCookies, LAMBDA c : NotExpired(c, now))
  IN [i \in 1..Len(live) |-> <<live[i].name, live[i].value>>]

\* const ttl = data.ttlSeconds || 86400 * 7, as the /bootstrap route passes it
SessionTtlSeconds == 86400 * 7

\* Date.now()
DateNow == nowS * 1000 + frac

\* GET sess:cand:<id>: a key past its expiry (exp, in ms) is gone
GetSession(cand) ==
  IF sess[cand] = <<>> \/ DateNow >= sess[cand][1].exp THEN Null ELSE <<sess[cand][1].session>>

\* GET pause:cand:<id>: the string of pausedUntil, or nothing
GetPause(cand) ==
  IF pauseKeys[cand] = <<>> \/ DateNow >= pauseKeys[cand][1].exp THEN Null
  ELSE <<pauseKeys[cand][1].until>>

NoRead == [op |-> "none", cand |-> "", ms |-> 0, result |-> <<>>, input |-> <<>>,
           record |-> FALSE, indexed |-> FALSE]
\* The control routes: whether the publisher's connection is up; the last
\* request, where its handler stands, the status it answered (0: none yet),
\* the tasks it generated and the next to push; and as history the body it
\* got, the backlog it found and whether it published the STOP
NoControl == [publisherUp |-> TRUE, route |-> "none", pc |-> "idle", status |-> 0,
              tasks |-> <<>>, i |-> 0, body |-> <<>>, before |-> <<>>, published |-> FALSE]

\* The GET /stream requests followed
StreamIds == {"b1", "b2"}
\* A request not yet made: where its handler stands, whether the browser's
\* connection is open, whether the store holds the subscription of its logSub,
\* whether its 'close' listener is registered, and the messages its callback
\* has written, in order (history)
NoStream == [pc |-> "none", open |-> FALSE, registered |-> FALSE, listening |-> FALSE,
             got |-> <<>>]
InitStream ==
  /\ streams = [b \in StreamIds |-> NoStream]
  /\ streamLog = <<>>

InitStoreRest ==
  /\ frac = 0
  /\ pauseKeys = [c \in Identities |-> <<>>]
  /\ lastUp = [c \in Identities |-> <<>>]
  /\ lastPause = [c \in Identities |-> <<>>]
  /\ seen = NoRead
  /\ ctl = NoControl
  /\ storeCalls = 0

\* A request of the proxy: where it stands, what the caller sent, req.ctx, the
\* status last sent; and as history the calls of the limiter made for it, the
\* number of https.request calls, the responses sent, what the upstream did
NoRequest == [pc |-> "none", input |-> <<>>, ctx |-> <<>>, status |-> 0,
              took |-> <<>>, attempts |-> 0, answers |-> <<>>, event |-> <<>>]

InitProxyRest ==
  /\ nowS = StartSeconds
  /\ sess = [c \in Identities |-> <<>>]
  /\ sessList = {}
  /\ sessEvents = {}
  /\ reqs = [r \in ReqIds |-> NoRequest]
  /\ sent = {}

---------------------------------------------------------------------------
(* Session store and proxy path: actions                                   *)

\* The credentials a /bootstrap request uploads for an identity
TokenOf(cand) == <<cand, "token">>
CsrfOf(cand) == <<cand, "csrf">>
\* What the caller of the proxy sends along as its own
CallerAuthorization == <<"caller", "token">>
CallerCookie == << <<"sid", <<"caller", "sid">>>> >>

\* The jars of the model. One cookie for the US host, and the jars made of: a
\* parent-domain cookie of each region, a host cookie that expires during the
\* run, one that had expired before, one with expires 0, and one of a domain
\* whose name is the tail of the US host's name
SimpleJar(cand) == <<CookieOf(cand, "sid", HostUS, <<>>)>>
AllCookies(cand) ==
  <<CookieOf(cand, "us", <<".", "ama", "zon", ".", "com">>, <<>>),
    CookieOf(cand, "soon", HostUS, <<StartSeconds + 1>>),
    CookieOf(cand, "ca", <<".", "ama", "zon", ".", "ca">>, <<>>),
    CookieOf(cand, "old", HostCA, <<StartSeconds - 1>>),
    CookieOf(cand, "zero", HostUS, <<0>>),
    CookieOf(cand, "tail", <<"zon", ".", "com">>, <<>>)>>
RECURSIVE Pick(_, _, _)
Pick(seq, names, i) ==
  IF i > Len(seq) THEN <<>>
  ELSE (IF seq[i].name \in names THEN <<seq[i]>> ELSE <<>>) \o Pick(seq, names, i + 1)
CookieNames == {"us", "soon", "ca", "old", "zero", "tail"}
RichJars(cand) ==
  {Pick(AllCookies(cand), {"us", "ca"} \cup extra, 1) : extra \in SUBSET (CookieNames \ {"us", "ca"})}

\* upsertCandidateSession(candidateId, data) as POST /bootstrap calls it:
\* SETEX, SADD, PUBLISH
\* (the store counts the ttl from the time it runs the SETEX, latency ms after
\* the call has read the clock)
upsertCandidateSession(candidateId, accessToken, cookies, csrf, ttlSeconds, latency) ==
  LET now == nowS
      ttl == IF ttlSeconds = 0 THEN SessionTtlSeconds ELSE ttlSeconds
      session == [candidateId |-> candidateId, accessToken |-> accessToken,
                  cookies |-> normalizeCookies(cookies, now), csrf |-> csrf,
                  updatedAt |-> now, expiresAt |-> now + ttl]
  IN /\ sess' = [sess EXCEPT ![candidateId] =
                   <<[session |-> session, exp |-> DateNow + latency + ttl * 1000]>>]
     /\ sessList' = sessList \cup {candidateId}
     /\ sessEvents' = sessEvents \cup
          {[type |-> "session:upsert", candidateId |-> candidateId, timestamp |-> now]}

\* POST /bootstrap with all its fields
Bootstrap(candidateId, cookies, csrf) ==
  /\ upsertCandidateSession(candidateId, TokenOf(candidateId), cookies, csrf,
                            SessionTtlSeconds, 0)
  /\ UNCHANGED <<nowS, reqs, sent>>
  /\ UNCHANGED notProxyVars

\* A second passes
SecondPasses ==
  /\ nowS < StartSeconds + MaxSecondTicks
  /\ nowS' = nowS + 1
  /\ UNCHANGED <<sess, sessList, sessEvents, reqs, sent>>
  /\ UNCHANGED notProxyVars

\* What a caller puts in a proxy request: the identity in the body, in the
\* x-candidate-id header and in the query ("" when absent), the x-target-domain
\* header (<<>> when absent), a path or Host header of the Canadian site
Input(body, header, query, target, ca) ==
  [body |-> body, header |-> header, query |-> query, target |-> target, ca |-> ca]

\* The headers the caller's request carries
RequestHeaders ==
  [h \in {"content-type", "cookie", "authorization", "x-worker-id"} |->
     IF h = "cookie" THEN <<CallerCookie>>
     ELSE IF h = "authorization" THEN <<CallerAuthorization>>
     ELSE IF h = "x-worker-id" THEN <<"worker-1">> ELSE <<"application/json">>]

\* A request arrives at a proxy route
Arrive(r, input) ==
  /\ reqs[r].pc = "none"
  /\ reqs' = [reqs EXCEPT ![r] = [NoRequest EXCEPT !.pc = "candidateContext", !.input = input]]
  /\ UNCHANGED <<nowS, sess, sessList, sessEvents, sent>>
  /\ UNCHANGED notProxyVars

\* The header before the body
ResolveHeaderFirst(input) ==
  IF input.header # "" THEN input.header
  ELSE IF input.body # "" THEN input.body ELSE input.query
\* body, then header, then query
Resolve(input) ==
  IF input.body # "" THEN input.body
  ELSE IF input.header # "" THEN input.header ELSE input.query

\* res.status(status).json(...): the response, with its retryAfter if it has one
Answered(req, status, retryAfter) ==
  [req EXCEPT !.pc = "done", !.status = status,
              !.answers = Append(@, [status |-> status, retryAfter |-> retryAfter])]
RespondWith(r, status, retryAfter) ==
  [reqs EXCEPT ![r] = Answered(@, status, retryAfter)]
Respond(r, status) == RespondWith(r, status, <<>>)

\* A request to the create or the update route whose body lacks a required
\* field: validateCreateApp or validateUpdateApp answers 400
ArriveInvalid(r, input) ==
  /\ reqs[r].pc = "none"
  /\ reqs' = [reqs EXCEPT ![r] = Answered([NoRequest EXCEPT !.input = input], 400, <<>>)]
  /\ UNCHANGED <<nowS, sess, sessList, sessEvents, sent>>
  /\ UNCHANGED notProxyVars

\* The candidateContext middleware, getCandidateSession included
candidateContext(r) ==
  /\ reqs[r].pc = "candidateContext"
  /\ LET candidateId == Resolve(reqs[r].input)
         data == IF candidateId = "" THEN Null ELSE GetSession(candidateId)
     IN IF candidateId = "" \/ data = Null
          THEN /\ reqs' = Respond(r, 400)
               /\ UNCHANGED <<sess, sessList, sessEvents>>
          ELSE LET session == [data[1] EXCEPT !.cookies = normalizeCookies(@, nowS)]
               IN IF session.expiresAt < nowS
                    THEN \* deleteCandidateSession: DEL, SREM, PUBLISH
                         /\ sess' = [sess EXCEPT ![candidateId] = <<>>]
                         /\ sessList' = sessList \ {candidateId}
                         /\ sessEvents' = sessEvents \cup
                              {[type |-> "session:expire", candidateId |-> candidateId,
                                timestamp |-> nowS]}
                         /\ reqs' = Respond(r, 400)
                    ELSE /\ reqs' = [reqs EXCEPT ![r].pc = "rateLimit",
                                                 ![r].ctx = <<[candidateId |-> candidateId,
                                                               session |-> session]>>]
                         /\ UNCHANGED <<sess, sessList, sessEvents>>
  /\ UNCHANGED <<nowS, sent>>
  /\ UNCHANGED notProxyVars

\* rateLimitMiddleware with the answers of take and takeGlobal
rateLimitMiddleware(r, perIdOk, globalOk) ==
  /\ reqs[r].pc = "rateLimit"
  /\ LET took == IF perIdOk THEN <<"take", "takeGlobal">> ELSE <<"take">>
         req == [reqs[r] EXCEPT !.took = took]
     IN reqs' = [reqs EXCEPT ![r] =
                   IF perIdOk /\ globalOk THEN [req EXCEPT !.pc = "forward"]
                   ELSE Answered(req, 429, <<"retryAfterMs">>)]
  /\ UNCHANGED <<nowS, sess, sessList, sessEvents, sent>>
  /\ UNCHANGED notProxyVars

\* The path and the Host header before the x-target-domain header
TargetHostPathFirst(input) ==
  IF input.ca THEN HostCA
  ELSE IF input.target # <<>> /\ Includes(input.target, Amazon) THEN input.target
  ELSE HostUS
\* The target host of the forwarder
TargetHost(input) ==
  IF input.target # <<>> /\ Includes(input.target, Amazon) THEN input.target
  ELSE IF input.ca THEN HostCA ELSE HostUS

\* The request headers that are copied
safeHeadersAndCookie ==
  {"content-type", "accept", "accept-language", "user-agent", "x-requested-with", "origin",
   "referer", "cookie"}
safeHeaders ==
  {"content-type", "accept", "accept-language", "user-agent", "x-requested-with", "origin",
   "referer"}

HeaderNames ==
  safeHeaders \cup {"cookie", "authorization", "x-worker-id", "Authorization", "Cookie",
                    "X-Csrf-Token"}

\* The headers of the upstream request: <<>> for a header that is not sent
UpstreamHeaders(session, targetHost, now) ==
  [h \in HeaderNames |->
     IF h = "Authorization" THEN <<session.accessToken>>
     ELSE IF h = "Cookie" THEN <<serializeCookies(session.cookies, targetHost, now)>>
     ELSE IF h = "X-Csrf-Token" THEN (IF session.csrf # <<>> THEN <<session.csrf>> ELSE <<>>)
     ELSE IF h \in safeHeaders /\ h \in DOMAIN RequestHeaders THEN RequestHeaders[h]
     ELSE <<>>]

\* new URL(`https://${targetHost}...`) throws on a host that is no host name
UrlThrows(targetHost) == \E i \in DOMAIN targetHost : targetHost[i] = " "

\* forwardWithJar up to https.request; a throw is caught and answered 500
forwardWithJar(r) ==
  /\ reqs[r].pc = "forward"
  /\ LET ctx == reqs[r].ctx[1]
         targetHost == TargetHost(reqs[r].input)
     IN IF UrlThrows(targetHost)
          THEN /\ reqs' = Respond(r, 500)
               /\ sent' = sent
          ELSE /\ sent' = sent \cup
                    {[candidateId |-> ctx.candidateId, host |-> targetHost, at |-> nowS,
                      jar |-> ctx.session.cookies, input |-> reqs[r].input,
                      headers |-> UpstreamHeaders(ctx.session, targetHost, nowS)]}
               /\ reqs' = [reqs EXCEPT ![r].pc = "upstream", ![r].attempts = @ + 1]
  /\ UNCHANGED <<nowS, sess, sessList, sessEvents>>
  /\ UNCHANGED notProxyVars

\* The upstream answers, fails or times out
UpstreamOutcomes == {200, 429, 502, 504}
\* The retry-after header of an upstream 429: absent, or a number of seconds
RetryAfterHints == {<<>>, <<"30">>}
\* if (!res.headersSent), and the test left out
MaySendAlways(req) == TRUE
MaySend(req) == req.answers = <<>>
\* The first thing the upstream request does: a response with a status (429
\* with or without a retry-after, or another status, passed on), an error
\* (502) or a timeout (504, after upstreamReq.destroy())
UpstreamEvent(status, hint) ==
  [kind |-> IF status = 502 THEN "error" ELSE IF status = 504 THEN "timeout" ELSE "response",
   status |-> status, retryAfter |-> hint]
UpstreamAnswers(r, status) ==
  /\ reqs[r].pc = "upstream"
  /\ \E hint \in (IF status = 429 THEN RetryAfterHints ELSE {<<>>}) :
       LET req == [reqs[r] EXCEPT !.event = <<UpstreamEvent(status, hint)>>]
           retryAfter == IF status # 429 THEN <<>> ELSE IF hint # <<>> THEN hint ELSE <<"5">>
           answered == IF MaySend(req) THEN Answered(req, status, retryAfter)
                       ELSE [req EXCEPT !.pc = "done"]
       IN reqs' = [reqs EXCEPT ![r] =
                     IF status = 504 THEN [answered EXCEPT !.pc = "destroyed"] ELSE answered]
  /\ UNCHANGED <<nowS, sess, sessList, sessEvents, sent>>
  /\ UNCHANGED notProxyVars

\* The 'error' event that follows upstreamReq.destroy()
ErrorAfterDestroy(r) ==
  /\ reqs[r].pc = "destroyed"
  /\ reqs' = [reqs EXCEPT ![r] =
                IF MaySend(@) THEN Answered(@, 502, <<>>) ELSE [@ EXCEPT !.pc = "done"]]
  /\ UNCHANGED <<nowS, sess, sessList, sessEvents, sent>>
  /\ UNCHANGED notProxyVars

\* Two identities, two concurrent requests
ProxyInputs ==
  {Input("c1", "c2", "", <<>>, FALSE), Input("", "c2", "c1", <<>>, FALSE),
   Input("", "", "", <<>>, TRUE)}

NextProxy ==
  \/ \E c \in Identities : Bootstrap(c, SimpleJar(c), IF c = "c1" THEN CsrfOf(c) ELSE <<>>)
  \/ SecondPasses
  \/ \E r \in ReqIds : \E input \in ProxyInputs : Arrive(r, input)
  \/ \E r \in ReqIds : candidateContext(r)
  \/ \E r \in ReqIds : \E perIdOk, globalOk \in BOOLEAN : rateLimitMiddleware(r, perIdOk, globalOk)
  \/ \E r \in ReqIds : forwardWithJar(r)
  \/ \E r \in ReqIds : UpstreamAnswers(r, 200)

\* One identity, one request, every jar and every target host
NotAmazonHost == <<"not", "ama", "zon", ".", "com">>
CookieInputs ==
  {Input("c1", "", "", target, ca) :
     target \in {<<>>, HostCA, NotAmazonHost, <<"example", ".", "com">>}, ca \in BOOLEAN}

NextCookies ==
  \/ \E jar \in RichJars("c1") : Bootstrap("c1", jar, CsrfOf("c1"))
  \/ SecondPasses
  \/ \E input \in CookieInputs : Arrive("r1", input)
  \/ candidateContext("r1")
  \/ rateLimitMiddleware("r1", TRUE, TRUE)
  \/ forwardWithJar("r1")
  \/ \E status \in UpstreamOutcomes : UpstreamAnswers("r1", status)

\* req.path.includes('/application/ca/') || req.headers['host']?.includes('.ca')
InfersCA(path, host) ==
  Includes(path, <<"/application/ca/">>) \/ (host # <<>> /\ Includes(host, <<".", "ca">>))
\* The paths of the catch-all route and the Host headers of the model
Paths == {<<"/application/api/", "jobs">>, <<"/application/api/", "x", "/application/ca/", "jobs">>}
Hosts == {<<>>, <<"proxy", ".", "example", ".", "com">>, <<"proxy", ".", "ca", "mp", ".", "net">>}
\* The x-target-domain headers: none, the Canadian host, names that hold
\* 'amazon' (one of them no host name), a name that does not
BadHost == <<"ama", "zon", " ", "x">>
Hints == {<<>>, HostCA, NotAmazonHost, BadHost, <<"example", ".", "com">>}

---------------------------------------------------------------------------
(* Session store called directly: actions                                  *)

\* The jars given to upsert: an expired cookie before a valid one; a cookie
\* without a value, a valid one and one that expires during the run; a cookie
\* with expires 0 before a valid one
Valid(cand) == CookieOf(cand, "valid", HostUS, <<>>)
StoreJars(cand) ==
  {<<CookieOf(cand, "old", HostUS, <<StartSeconds - 1>>), Valid(cand)>>,
   <<[CookieOf(cand, "novalue", HostUS, <<>>) EXCEPT !.value = <<>>], Valid(cand),
     CookieOf(cand, "soon", HostUS, <<StartSeconds + 1>>)>>,
   <<CookieOf(cand, "zero", HostUS, <<0>>), Valid(cand)>>}
\* The time the SETEX takes to reach the store, in ms
StoreLatencies == {0, 600}

\* One more call of the store
Called == storeCalls < MaxStoreCalls /\ storeCalls' = storeCalls + 1

\* sessionStore.upsertCandidateSession(c, {accessToken, cookies, ttlSeconds})
Upsert(c, jar, ttlSeconds, latency) ==
  /\ upsertCandidateSession(c, TokenOf(c), jar, <<>>, ttlSeconds, latency)
  /\ lastUp' = [lastUp EXCEPT ![c] =
                  <<[cookies |-> jar,
                     expiresAt |-> nowS + (IF ttlSeconds = 0 THEN SessionTtlSeconds
                                           ELSE ttlSeconds)]>>]
  /\ UNCHANGED <<nowS, reqs, sent, frac, pauseKeys, lastPause, seen, ctl>>
  /\ UNCHANGED notStoreVars
  /\ Called

\* deleteCandidateSession(candidateId): DEL, SREM, PUBLISH
deleteCandidateSession(candidateId) ==
  /\ sess' = [sess EXCEPT ![candidateId] = <<>>]
  /\ sessList' = sessList \ {candidateId}
  /\ sessEvents' = sessEvents \cup
       {[type |-> "session:expire", candidateId |-> candidateId, timestamp |-> nowS]}

\* What getCandidateSession(candidateId) returns, and whether it deletes
Renormalized(data) == [data[1] EXCEPT !.cookies = normalizeCookies(@, nowS)]
SessionExpired(session) == session.expiresAt # 0 /\ session.expiresAt < nowS
GetReturns(candidateId) ==
  LET data == GetSession(candidateId)
  IN IF data = Null THEN Null
     ELSE IF SessionExpired(Renormalized(data)) THEN Null ELSE <<Renormalized(data)>>
GetDeletes(candidateId) ==
  GetSession(candidateId) # Null /\ SessionExpired(Renormalized(GetSession(candidateId)))

\* sessionStore.getCandidateSession(c)
getCandidateSession(c) ==
  /\ IF GetDeletes(c) THEN deleteCandidateSession(c)
     ELSE UNCHANGED <<sess, sessList, sessEvents>>
  /\ UNCHANGED <<nowS, reqs, sent, frac, pauseKeys, lastUp, lastPause, ctl>>
  /\ UNCHANGED notStoreVars
  /\ Called
  /\ seen' = [op |-> "get", cand |-> c, ms |-> DateNow, result |-> GetReturns(c),
              input |-> lastUp[c], record |-> GetSession(c)' # Null,
              indexed |-> c \in sessList']

\* sessionStore.listCandidateSessions(): SMEMBERS, a get of each member, the
\* sort by updatedAt, newest first
SortedByUpdatedAt(seq) ==
  \A i, j \in DOMAIN seq : i < j => seq[i].updatedAt >= seq[j].updatedAt
listCandidateSessions ==
  LET candidateIds == sessList
      found == {c \in candidateIds : GetReturns(c) # Null}
      gone == {c \in candidateIds : GetDeletes(c)}
  IN /\ sess' = [c \in Identities |-> IF c \in gone THEN <<>> ELSE sess[c]]
     /\ sessList' = sessList \ gone
     /\ sessEvents' = sessEvents \cup
          {[type |-> "session:expire", candidateId |-> c, timestamp |-> nowS] : c \in gone}
     /\ \E order \in [1..Cardinality(found) -> found] :
          /\ \A i, j \in DOMAIN order : i # j => order[i] # order[j]
          /\ LET sessions == [i \in DOMAIN order |-> GetReturns(order[i])[1]]
             IN /\ SortedByUpdatedAt(sessions)
                /\ seen' = [op |-> "list", cand |-> "", ms |-> DateNow, result |-> sessions,
                            input |-> <<>>, record |-> FALSE, indexed |-> FALSE]
     /\ UNCHANGED <<nowS, reqs, sent, frac, pauseKeys, lastUp, lastPause, ctl>>
     /\ UNCHANGED notStoreVars
     /\ Called

\* sessionStore.deleteCandidateSession(c), called on its own
Delete(c) ==
  /\ deleteCandidateSession(c)
  /\ UNCHANGED <<nowS, reqs, sent, frac, pauseKeys, lastUp, lastPause, seen, ctl>>
  /\ UNCHANGED notStoreVars
  /\ Called

\* Math.floor(ms / 1000) in the place of Math.ceil
FloorSeconds(ms) == ms \div 1000
\* Math.ceil(ms / 1000)
CeilSeconds(ms) == (ms + 999) \div 1000

\* sessionStore.pauseCandidate(c, ms): SETEX, PUBLISH. The store refuses a
\* SETEX of 0 seconds: the call raises and nothing is written
pauseCandidate(c, ms) ==
  /\ IF CeilSeconds(ms) <= 0
       THEN UNCHANGED <<pauseKeys, sessEvents, lastPause>>
       ELSE LET pausedUntil == DateNow + ms
            IN /\ pauseKeys' = [pauseKeys EXCEPT ![c] =
                    <<[until |-> pausedUntil, exp |-> DateNow + CeilSeconds(ms) * 1000]>>]
               /\ sessEvents' = sessEvents \cup
                    {[type |-> "session:pause", candidateId |-> c, timestamp |-> nowS]}
               /\ lastPause' = [lastPause EXCEPT ![c] = <<pausedUntil>>]
  /\ UNCHANGED <<nowS, sess, sessList, reqs, sent, frac, lastUp, seen, ctl>>
  /\ UNCHANGED notStoreVars
  /\ Called

\* A resume that toggles: it pauses an identity that is not paused
resumeToggle(c) ==
  /\ pauseKeys' = [pauseKeys EXCEPT ![c] =
                     IF @ = <<>> THEN <<[until |-> DateNow + 500, exp |-> DateNow + 1000]>>
                     ELSE <<>>]
  /\ sessEvents' = sessEvents \cup
       {[type |-> "session:resume", candidateId |-> c, timestamp |-> nowS]}
  /\ lastPause' = [lastPause EXCEPT ![c] = <<>>]
  /\ UNCHANGED <<nowS, sess, sessList, reqs, sent, frac, lastUp, seen, ctl>>
  /\ UNCHANGED notStoreVars
  /\ Called

\* sessionStore.resumeCandidate(c): DEL, PUBLISH
resumeCandidate(c) ==
  /\ pauseKeys' = [pauseKeys EXCEPT ![c] = <<>>]
  /\ sessEvents' = sessEvents \cup
       {[type |-> "session:resume", candidateId |-> c, timestamp |-> nowS]}
  /\ lastPause' = [lastPause EXCEPT ![c] = <<>>]
  /\ UNCHANGED <<nowS, sess, sessList, reqs, sent, frac, lastUp, seen, ctl>>
  /\ UNCHANGED notStoreVars
  /\ Called

\* What isPaused(c) and getPausedUntil(c) return, and whether they delete the key
PauseRead(c) == GetPause(c)
PauseOver(c) == PauseRead(c) # Null /\ DateNow >= PauseRead(c)[1]
IsPausedReturns(c) == PauseRead(c) # Null /\ ~PauseOver(c)
GetPausedUntilReturns(c) == IF PauseRead(c) = Null \/ PauseOver(c) THEN Null ELSE PauseRead(c)

\* sessionStore.isPaused(c)
isPaused(c) ==
  /\ pauseKeys' = IF PauseOver(c) THEN [pauseKeys EXCEPT ![c] = <<>>] ELSE pauseKeys
  /\ UNCHANGED <<nowS, sess, sessList, sessEvents, reqs, sent, frac, lastUp, lastPause, ctl>>
  /\ UNCHANGED notStoreVars
  /\ Called
  /\ seen' = [op |-> "isPaused", cand |-> c, ms |-> DateNow, result |-> <<IsPausedReturns(c)>>,
              input |-> lastPause[c], record |-> GetPause(c)' # Null, indexed |-> FALSE]

\* sessionStore.getPausedUntil(c)
getPausedUntil(c) ==
  /\ pauseKeys' = IF PauseOver(c) THEN [pauseKeys EXCEPT ![c] = <<>>] ELSE pauseKeys
  /\ UNCHANGED <<nowS, sess, sessList, sessEvents, reqs, sent, frac, lastUp, lastPause, ctl>>
  /\ UNCHANGED notStoreVars
  /\ Called
  /\ seen' = [op |-> "getPausedUntil", cand |-> c, ms |-> DateNow,
              result |-> GetPausedUntilReturns(c),
              input |-> lastPause[c], record |-> GetPause(c)' # Null, indexed |-> FALSE]

\* The calls of the store step by step, as two instances interleave them: a
\* getCandidateSession that has read an expired record and not yet deleted it,
\* an isPaused that has read a pause that is over and not yet deleted its key
InFlight == seen.op \in {"get:expired", "isPaused:over"}

\* getCandidateSession(c) up to the await of deleteCandidateSession
getRead(c) ==
  /\ ~InFlight
  /\ seen' = [op |-> IF GetDeletes(c) THEN "get:expired" ELSE "get", cand |-> c,
              ms |-> DateNow, result |-> GetReturns(c), input |-> lastUp[c],
              record |-> GetSession(c) # Null, indexed |-> c \in sessList]
  /\ UNCHANGED <<nowS, sess, sessList, sessEvents, reqs, sent, frac, pauseKeys, lastUp,
                 lastPause, ctl>>
  /\ UNCHANGED notStoreVars
  /\ Called

\* The deleteCandidateSession of a getCandidateSession, and its return null
getDelete(c) ==
  /\ seen.op = "get:expired" /\ seen.cand = c
  /\ deleteCandidateSession(c)
  /\ seen' = [seen EXCEPT !.op = "get", !.record = FALSE, !.indexed = FALSE]
  /\ UNCHANGED <<nowS, reqs, sent, frac, pauseKeys, lastUp, lastPause, ctl, storeCalls>>
  /\ UNCHANGED notStoreVars

\* isPaused(c) up to the await of the DEL
isPausedRead(c) ==
  /\ ~InFlight
  /\ seen' = [op |-> IF PauseOver(c) THEN "isPaused:over" ELSE "isPaused", cand |-> c,
              ms |-> DateNow, result |-> <<IsPausedReturns(c)>>, input |-> lastPause[c],
              record |-> GetPause(c) # Null, indexed |-> FALSE]
  /\ UNCHANGED <<nowS, sess, sessList, sessEvents, reqs, sent, frac, pauseKeys, lastUp,
                 lastPause, ctl>>
  /\ UNCHANGED notStoreVars
  /\ Called

\* The DEL of an isPaused, and its return false
isPausedDel(c) ==
  /\ seen.op = "isPaused:over" /\ seen.cand = c
  /\ pauseKeys' = [pauseKeys EXCEPT ![c] = <<>>]
  /\ seen' = [seen EXCEPT !.op = "isPaused", !.record = FALSE]
  /\ UNCHANGED <<nowS, sess, sessList, sessEvents, reqs, sent, frac, lastUp, lastPause, ctl,
                 storeCalls>>
  /\ UNCHANGED notStoreVars

\* Half a second passes
HalfSecondPasses ==
  /\ DateNow < (StartSeconds + MaxSecondTicks) * 1000
  /\ IF frac = 0 THEN frac' = 500 /\ nowS' = nowS
     ELSE frac' = 0 /\ nowS' = nowS + 1
  /\ UNCHANGED <<sess, sessList, sessEvents, reqs, sent, pauseKeys, lastUp, lastPause, seen, ctl,
                 storeCalls>>
  /\ UNCHANGED notStoreVars

\* The pauses asked for, in ms
PauseMs == {0, 500, 1500}

\* The sessions of the store: upsert, get, list, delete, time
NextStore ==
  \/ \E jar \in StoreJars("c1") : Upsert("c1", jar, 0, 0)
  \/ \E latency \in StoreLatencies : Upsert("c1", <<Valid("c1")>>, 1, latency)
  \/ Upsert("c2", <<Valid("c2")>>, 1, 0)
  \/ getCandidateSession("c1")
  \/ listCandidateSessions
  \/ HalfSecondPasses

\* Two instances on one identity: the reads of one step by step, the writes of
\* the other in between
NextRace ==
  \/ \E latency \in StoreLatencies : Upsert("c1", <<Valid("c1")>>, 1, latency)
  \/ Upsert("c1", <<Valid("c1")>>, 0, 0)
  \/ getRead("c1")
  \/ getDelete("c1")
  \/ \E ms \in PauseMs : pauseCandidate("c1", ms)
  \/ isPausedRead("c1")
  \/ isPausedDel("c1")
  \/ HalfSecondPasses

\* The pauses of the store, next to the session of the same identity
NextPause ==
  \/ Upsert("c1", <<Valid("c1")>>, 1, 600)
  \/ getCandidateSession("c1")
  \/ Delete("c1")
  \/ \E ms \in PauseMs : pauseCandidate("c1", ms)
  \/ resumeCandidate("c1")
  \/ isPaused("c1")
  \/ getPausedUntil("c1")
  \/ HalfSecondPasses

---------------------------------------------------------------------------
(* The control routes POST /start and POST /stop: actions                  *)

\* An item of the arrays of a /start body: <<>> is a JSON null, <<o>> an
\* object; a field that is absent or falsy is ""
SessionItem(candidateId, authToken, cookieHeader) ==
  <<[candidateId |-> candidateId, authToken |-> authToken, cookieHeader |-> cookieHeader]>>
JobItem(jobId, scheduleId) == <<[jobId |-> jobId, scheduleId |-> scheduleId]>>
NullItem == <<>>

\* step 1 of the handler: the sessions array if it is a non-empty array, else
\* the flat session if it has candidateId and authToken
NormalSessions(body) ==
  IF body.sessions # <<>> THEN body.sessions
  ELSE IF body.candidateId # "" /\ body.authToken # ""
         THEN <<SessionItem(body.candidateId, body.authToken, body.cookieHeader)>>
         ELSE <<>>
\* likewise the combinations array, else the flat job
NormalJobs(body) ==
  IF body.combinations # <<>> THEN body.combinations
  ELSE IF body.jobId # "" /\ body.scheduleId # ""
         THEN <<JobItem(body.jobId, body.scheduleId)>>
         ELSE <<>>

\* !session.candidateId || !session.authToken, and !job.jobId || !job.scheduleId
SessionSkipped(item) == item[1].candidateId = "" \/ item[1].authToken = ""
JobSkipped(item) == item[1].jobId = "" \/ item[1].scheduleId = ""

\* The task pushed for a session and a job
TaskOf(session, job) ==
  [jobId |-> job.jobId, scheduleId |-> job.scheduleId, candidateId |-> session.candidateId,
   authToken |-> session.authToken, cookieHeader |-> session.cookieHeader]

\* step 3 of the handler from session si and job ji on, with the tasks so
\* far: the tasks generated, or Null when reading a field of a null item throws
RECURSIVE GenerateFrom(_, _, _, _, _)
GenerateFrom(sessions, jobs, si, ji, acc) ==
  IF si > Len(sessions) THEN <<acc>>
  ELSE IF sessions[si] = NullItem THEN Null
  ELSE IF SessionSkipped(sessions[si]) \/ ji > Len(jobs)
         THEN GenerateFrom(sessions, jobs, si + 1, 1, acc)
  ELSE IF jobs[ji] = NullItem THEN Null
  ELSE IF JobSkipped(jobs[ji]) THEN GenerateFrom(sessions, jobs, si, ji + 1, acc)
  ELSE GenerateFrom(sessions, jobs, si, ji + 1,
                    Append(acc, TaskOf(sessions[si][1], jobs[ji][1])))

\* What a handler that throws leaves: no response (the rejection of the async
\* handler goes unhandled) or the 500 of the error middleware
ThrowStatuses == {0, 500}

\* POST /start up to the first await of addTasks: normalization, validation,
\* generation, then the 400, the throw, or the DEL of addTasks
PostStart(body) ==
  /\ ctl.pc # "push"
  /\ LET sessions == NormalSessions(body)
         jobs == NormalJobs(body)
         req == [ctl EXCEPT !.route = "start", !.body = <<body>>, !.before = job_queue,
                            !.tasks = <<>>, !.i = 0, !.published = FALSE]
     IN IF sessions = <<>> \/ jobs = <<>>
          THEN /\ ctl' = [req EXCEPT !.pc = "done", !.status = 400]
               /\ UNCHANGED job_queue
          ELSE LET generated == GenerateFrom(sessions, jobs, 1, 1, <<>>)
               IN IF generated = Null
                    THEN /\ \E status \in ThrowStatuses :
                              ctl' = [req EXCEPT !.pc = "done", !.status = status]
                         /\ UNCHANGED job_queue
                    ELSE IF generated[1] = <<>>
                           THEN /\ ctl' = [req EXCEPT !.pc = "done", !.status = 400]
                                /\ UNCHANGED job_queue
                           ELSE /\ ctl' = [req EXCEPT !.pc = "push", !.status = 0,
                                                      !.tasks = generated[1], !.i = 1]
                                /\ job_queue' = Del(job_queue)
  /\ UNCHANGED <<adds, cons, workers, localWorkers, stopPending, nstops, upstreamLog,
                 liveLogs, popLog, lastAdd, stopDone>>
  /\ UNCHANGED <<frac, pauseKeys, lastUp, lastPause, seen, storeCalls>>
  /\ UNCHANGED <<rateVars, workerVars, proxyVars, streamVars>>

\* One turn of the loop of addTasks: RPUSH of the JSON string of a task; after
\* the last one the handler answers 200
StartPush ==
  /\ ctl.pc = "push"
  /\ job_queue' = RPush(job_queue, ctl.tasks[ctl.i])
  /\ ctl' = IF ctl.i = Len(ctl.tasks) THEN [ctl EXCEPT !.pc = "done", !.status = 200]
            ELSE [ctl EXCEPT !.i = @ + 1]
  /\ UNCHANGED <<adds, cons, workers, localWorkers, stopPending, nstops, upstreamLog,
                 liveLogs, popLog, lastAdd, stopDone>>
  /\ UNCHANGED <<frac, pauseKeys, lastUp, lastPause, seen, storeCalls>>
  /\ UNCHANGED <<rateVars, workerVars, proxyVars, streamVars>>

\* POST /stop: what the handler answers when the publish succeeds, and when
\* it fails and the await throws past res.json
StopStatuses(up) == IF up THEN {200} ELSE ThrowStatuses

\* POST /stop: await jobQueue.broadcastStop(), then res.json(...)
PostStop ==
  /\ ctl.pc # "push"
  /\ nstops < MaxStopCalls
  /\ nstops' = nstops + 1
  /\ stopPending' = IF ctl.publisherUp THEN [n \in Insts |-> stopPending[n] + 1]
                    ELSE stopPending
  /\ \E status \in StopStatuses(ctl.publisherUp) :
       ctl' = [ctl EXCEPT !.route = "stop", !.pc = "done", !.status = status,
                          !.body = <<>>, !.before = job_queue, !.tasks = <<>>, !.i = 0,
                          !.published = ctl.publisherUp]
  /\ UNCHANGED <<job_queue, adds, cons, workers, localWorkers, upstreamLog, liveLogs,
                 popLog, lastAdd, stopDone>>
  /\ UNCHANGED <<frac, pauseKeys, lastUp, lastPause, seen, storeCalls>>
  /\ UNCHANGED <<rateVars, workerVars, proxyVars, streamVars>>

\* The publisher's connection to the store is lost, or comes back
PublisherFlips ==
  /\ ctl.pc # "push"
  /\ ctl' = [ctl EXCEPT !.publisherUp = ~@]
  /\ UNCHANGED queueVars
  /\ UNCHANGED <<frac, pauseKeys, lastUp, lastPause, seen, storeCalls>>
  /\ UNCHANGED <<rateVars, workerVars, proxyVars, streamVars>>

\* The bodies of /start: sessions and combinations arrays (absent or empty,
\* one or two items, an item without a field, a null item), flat fields
S1 == SessionItem("c1", "token-c1", "")
S2 == SessionItem("c2", "token-c2", "sid=1")
SNoToken == SessionItem("c1", "", "")
J1 == JobItem("JOB-1", "SCH-1")
J2 == JobItem("JOB-2", "SCH-2")
JNoSchedule == JobItem("JOB-1", "")
SessionArrays == {<<>>, <<S1>>, <<S1, S2>>, <<SNoToken, S2>>, <<SNoToken>>, <<NullItem>>}
JobArrays == {<<>>, <<J1>>, <<J1, J2>>, <<JNoSchedule, J2>>, <<JNoSchedule>>, <<J1, NullItem>>}
StartBodies ==
  {[sessions |-> sessions, combinations |-> combinations,
    candidateId |-> flat[1], authToken |-> flat[2], cookieHeader |-> "",
    jobId |-> flat[3], scheduleId |-> flat[4]] :
     sessions \in SessionArrays, combinations \in JobArrays,
     flat \in {<<"", "", "", "">>, <<"c2", "token-c2", "JOB-2", "SCH-2">>,
               <<"c2", "", "JOB-2", "">>}}

\* The body with the flat fields of one session and one job
FlatBody ==
  [sessions |-> <<>>, combinations |-> <<>>, candidateId |-> "c2", authToken |-> "token-c2",
   cookieHeader |-> "", jobId |-> "JOB-2", scheduleId |-> "SCH-2"]

\* /start requests, one at a time
NextStart ==
  \/ \E body \in StartBodies : PostStart(body)
  \/ StartPush

\* /stop requests, one at a time, with the publisher's connection up or down,
\* the instances' STOP handlers, and a /start in between
NextStop ==
  \/ PostStop
  \/ PublisherFlips
  \/ \E n \in Insts : onStop(n)
  \/ PostStart(FlatBody)
  \/ StartPush

---------------------------------------------------------------------------
(* rateLimitMiddleware with the limiter behind it: actions                 *)

\* The instance that serves a request, and its limiter
InstOf(r) == IF r = "r1" THEN "i1" ELSE "i2"
\* The call of the limiter that request r awaits has returned
Returned429(r) == lim[InstOf(r)].call.pc = "idle" /\ lim[InstOf(r)].result = "denied"
ReturnedOk(r) ==
  lim[InstOf(r)].call.pc = "idle" /\ lim[InstOf(r)].result \in {"allowed", "allowed_on_error"}

\* A middleware that goes on to the global check whatever take returned
AfterTakeAlways(ok) == "takeGlobal"
\* if (!perIdResult.ok) return res.status(429)...; else takeGlobal
AfterTake(ok) == IF ok THEN "takeGlobal" ELSE "answer"

\* rateLimitMiddleware up to await rateLimiter.take(candidateId)
MwTake(r) ==
  /\ reqs[r].pc = "rateLimit"
  /\ Begin(InstOf(r), CandKey(reqs[r].ctx[1].candidateId))
  /\ reqs' = [reqs EXCEPT ![r].pc = "take", ![r].took = <<"take">>]
  /\ UNCHANGED <<clock, ticks, redisUp, cfg, kv, hist, lastOk, ncalls>>
  /\ UNCHANGED <<nowS, sess, sessList, sessEvents, sent>>
  /\ UNCHANGED <<queueVars, workerVars, storeVars, streamVars>>

\* take has returned: the 429 of the per-identity limit, or on to
\* await rateLimiter.takeGlobal()
MwGlobal(r) ==
  /\ reqs[r].pc = "take"
  /\ Returned429(r) \/ ReturnedOk(r)
  /\ IF AfterTake(ReturnedOk(r)) = "takeGlobal"
       THEN /\ Begin(InstOf(r), GlobalKey)
            /\ reqs' = [reqs EXCEPT ![r].pc = "takeGlobal",
                                    ![r].took = <<"take", "takeGlobal">>]
       ELSE /\ reqs' = [reqs EXCEPT ![r] = Answered(@, 429, <<"retryAfterMs">>)]
            /\ UNCHANGED lim
  /\ UNCHANGED <<clock, ticks, redisUp, cfg, kv, hist, lastOk, ncalls>>
  /\ UNCHANGED <<nowS, sess, sessList, sessEvents, sent>>
  /\ UNCHANGED <<queueVars, workerVars, storeVars, streamVars>>

\* takeGlobal has returned: the 429 of the global limit, or next()
MwNext(r) ==
  /\ reqs[r].pc = "takeGlobal"
  /\ Returned429(r) \/ ReturnedOk(r)
  /\ reqs' = [reqs EXCEPT ![r] = IF ReturnedOk(r) THEN [@ EXCEPT !.pc = "forward"]
                                  ELSE Answered(@, 429, <<"retryAfterMs">>)]
  /\ UNCHANGED <<nowS, sess, sessList, sessEvents, sent>>
  /\ UNCHANGED notProxyVars

\* Two requests of one identity through the proxy route, each on its instance
NextLimit ==
  \/ Bootstrap("c1", SimpleJar("c1"), CsrfOf("c1"))
  \/ \E r \in ReqIds : Arrive(r, Input("c1", "", "", <<>>, FALSE))
  \/ \E r \in ReqIds : candidateContext(r)
  \/ \E r \in ReqIds : MwTake(r)
  \/ \E c \in Callers : Eval(c)
  \/ \E r \in ReqIds : MwGlobal(r)
  \/ \E r \in ReqIds : MwNext(r)
  \/ \E r \in ReqIds : forwardWithJar(r)
  \/ \E r \in ReqIds : UpstreamAnswers(r, 200)

\* One request at a time, with every way of naming the identity, every hint,
\* path and Host header; c1 has a session, c2 one that runs out or none
ForwardInputs ==
  {Input(ids[1], ids[2], ids[3], target, InfersCA(path, host)) :
     ids \in {<<"c1", "c2", "">>, <<"", "c2", "c1">>, <<"", "", "c1">>, <<"c2", "c1", "c1">>,
              <<"", "", "">>},
     target \in Hints, path \in Paths, host \in Hosts}

NextForward ==
  \/ sess["c1"] = <<>> /\ frac = 0 /\ Bootstrap("c1", SimpleJar("c1"), CsrfOf("c1"))
  \/ reqs["r1"].pc = "none" /\ Upsert("c2", <<Valid("c2")>>, 1, 600)
  \/ reqs["r1"].pc = "none" /\ HalfSecondPasses
  \/ \E input \in ForwardInputs : Arrive("r1", input)
  \/ \E input \in ForwardInputs : ArriveInvalid("r1", input)
  \/ candidateContext("r1")
  \/ \E perIdOk, globalOk \in BOOLEAN : rateLimitMiddleware("r1", perIdOk, globalOk)
  \/ forwardWithJar("r1")
  \/ \E status \in UpstreamOutcomes : UpstreamAnswers("r1", status)
  \/ ErrorAfterDestroy("r1")

NextRate ==
  \/ Tick
  \/ \E c \in Callers, id \in Cands : take(c, id)
  \/ \E c \in Callers : takeGlobal(c)
  \/ \E c \in Callers : Eval(c)

---------------------------------------------------------------------------
(* The log stream: actions                                                 *)

\* GET /stream up to the await of subscribeToLogs: the headers, ': connected',
\* the heartbeat timer
getStream(b) ==
  /\ streams[b].pc = "none"
  /\ streams' = [streams EXCEPT ![b] = [@ EXCEPT !.pc = "connecting", !.open = TRUE]]
  /\ UNCHANGED streamLog
  /\ UNCHANGED notStreamVars

\* subscribeToLogs(callback) returns: the store holds the subscription of the
\* new logSub; the handler then registers its 'close' listener
subscribeToLogs(b) ==
  /\ streams[b].pc = "connecting"
  /\ streams' = [streams EXCEPT ![b] = [@ EXCEPT !.pc = "subscribed", !.registered = TRUE,
                                                  !.listening = TRUE]]
  /\ UNCHANGED streamLog
  /\ UNCHANGED notStreamVars

\* The browser goes away and req emits 'close': a listener registered by then
\* clears the heartbeat and calls logSub.disconnect()
clientCloses(b) ==
  /\ streams[b].open
  /\ streams' = [streams EXCEPT ![b] =
                   [@ EXCEPT !.open = FALSE,
                             !.pc = IF streams[b].listening THEN "closing" ELSE @]]
  /\ UNCHANGED streamLog
  /\ UNCHANGED notStreamVars

\* A disconnect that leaves the subscription with the store
disconnectKeeps(stream) == [stream EXCEPT !.pc = "closed"]
\* await logSub.disconnect(): the connection of the logSub is gone, and its
\* subscription with it
disconnect(stream) == [stream EXCEPT !.pc = "closed", !.registered = FALSE]

\* The disconnect of a stream completes
closeDone(b) ==
  /\ streams[b].pc = "closing"
  /\ streams' = [streams EXCEPT ![b] = disconnect(@)]
  /\ UNCHANGED streamLog
  /\ UNCHANGED notStreamVars

\* The logSubs the store sends a message of 'live_logs' to, and those going
\* down, which the message may or may not reach
Registered == {b \in StreamIds : streams[b].registered /\ streams[b].pc # "closing"}
GoingDown == {b \in StreamIds : streams[b].registered /\ streams[b].pc = "closing"}

\* A worker calls jobQueue.publishLog(message): the PUBLISH, and the callback
\* of every logSub the message reaches writes it to its response
workerPublishes ==
  /\ Len(streamLog) < MaxLogs
  /\ publishLog("success").sent
  /\ LET id == Len(streamLog) + 1
     IN \E some \in SUBSET GoingDown :
          /\ streams' = [b \in StreamIds |->
                           IF b \in Registered \cup some
                             THEN [streams[b] EXCEPT !.got = Append(@, id)]
                             ELSE streams[b]]
          /\ streamLog' = Append(streamLog,
                 [id |-> id,
                  subscribed |-> {b \in StreamIds : streams[b].pc = "subscribed"},
                  later |-> {b \in StreamIds : streams[b].pc \in {"none", "connecting"}},
                  closed |-> {b \in StreamIds : streams[b].pc = "closed"}])
  /\ UNCHANGED notStreamVars

NextStream ==
  \/ \E b \in StreamIds : getStream(b)
  \/ \E b \in StreamIds : subscribeToLogs(b)
  \/ \E b \in StreamIds : clientCloses(b)
  \/ \E b \in StreamIds : closeDone(b)
  \/ workerPublishes

InitR == InitRate /\ InitQueue /\ InitWorkerRest /\ InitProxyRest /\ InitStoreRest /\ InitStream

SpecRate == InitR /\ [][NextRate]_vars

\* One bucket over a longer time: calls of two instances, the script of one
\* of which may run long after it read its clock, and the expiry of the key
NextBucket ==
  \/ lim["i1"].call.pc = "idle" /\ Wait
  \/ \E c \in Callers : takeGlobal(c)
  \/ \E c \in Callers : Eval(c)

\* The proxy route with the limiter behind it
SpecLimit == InitR /\ [][NextLimit]_vars

\* The rate limiter with a coordination store that may be unreachable
NextRateFail ==
  \/ NextRate
  \/ StoreDown
  \/ StoreUp

SpecRateFail == InitR /\ [][NextRateFail]_vars

\* The queue and the consumer loops of the fleet, the rate limiter at rest
InitRateIdle == InitRate /\ cfg = [perIdRps |-> 10, perIdBurst |-> MaxBurst,
                                   globalRps |-> 1, globalBurst |-> 1]

InitB == InitRateIdle /\ InitQueue /\ InitWorkerRest /\ InitProxyRest /\ InitStoreRest /\ InitStream
SpecBucket == InitB /\ [][NextBucket]_vars

InitQ == InitRateIdle /\ InitQueue /\ InitWorkerRest /\ InitProxyRest /\ InitStoreRest /\ InitStream

SpecQueue == InitQ /\ [][NextQueue]_vars

SpecFleet == InitQ /\ [][NextFleet]_vars

\* One worker, the answers of the upstream and the stop() calls
InitW == InitRateIdle /\ InitQueue /\ InitWorker /\ InitProxyRest /\ InitStoreRest /\ InitStream

SpecWorker == InitW /\ [][NextWorker]_vars

SpecWorkerLive == InitW /\ [][NextLive]_vars /\ Fairness

\* The session store and the proxy path, the rest at rest
InitP == InitRateIdle /\ InitQueue /\ InitWorkerRest /\ InitProxyRest /\ InitStoreRest /\ InitStream

SpecProxy == InitP /\ [][NextProxy]_vars

SpecCookies == InitP /\ [][NextCookies]_vars

\* One request through the whole chain, up to the last event of the upstream
InitF == InitRateIdle /\ InitQueue /\ InitWorkerRest /\ InitProxyRest /\ InitStoreRest /\ InitStream

SpecForward == InitF /\ [][NextForward]_vars

\* The control routes
InitC == InitRateIdle /\ InitQueue /\ InitWorkerRest /\ InitProxyRest /\ InitStoreRest /\ InitStream
SpecStart == InitC /\ [][NextStart]_vars
SpecStop == InitC /\ [][NextStop]_vars

\* The session store called directly
InitS == InitRateIdle /\ InitQueue /\ InitWorkerRest /\ InitProxyRest /\ InitStoreRest /\ InitStream

SpecStore == InitS /\ [][NextStore]_vars

SpecPause == InitS /\ [][NextPause]_vars

SpecRace == InitS /\ [][NextRace]_vars

\* The log stream
SpecStream == InitS /\ [][NextStream]_vars

---------------------------------------------------------------------------
(* Rate limiter: properties                                                *)

Executions(k) == 1..Len(hist[k])

\* C1: the refill-check-decrement-persist step is atomic, so no token is
\* granted twice: of the calls on one key that read their timestamp and ran
\* with no time advance, the store allows at most burst, however the calls of
\* the instances interleave.
NoDoubleSpend ==
  \A k \in Keys :
    Cardinality({i \in Executions(k) : hist[k][i].ok /\ hist[k][i].now = clock})
      <= MaxTokensOf(k)

\* Two calls raced for the same key: the one that ran first was allowed and a
\* later one with the same timestamp was denied.
RaceDecided ==
  \E k \in Keys : \E i, j \in Executions(k) :
    /\ i < j
    /\ hist[k][i].racing /\ hist[k][i].ok
    /\ hist[k][j].now = hist[k][i].now /\ ~hist[k][j].ok

\* C2: on a fresh bucket with no time advance exactly the first burst calls
\* are allowed and every later call is denied with retryAfterMs > 0.
FreshBurst ==
  ticks = 0 =>
    \A k \in Keys : \A i \in Executions(k) :
      /\ hist[k][i].ok <=> i <= MaxTokensOf(k)
      /\ ~hist[k][i].ok => hist[k][i].retryAfterMs > 0

\* A bucket of burst 2 or more was used up and the next call denied.
BurstUsedUp ==
  /\ ticks = 0
  /\ \E k \in Keys :
       /\ MaxTokensOf(k) >= 2
       /\ Len(hist[k]) > MaxTokensOf(k)
       /\ ~hist[k][Len(hist[k])].ok

\* C3: refill is linear in the elapsed time and clamped: a call that follows
\* an allowed call which persisted (tokens, lastRefill), the key still being
\* there, sees min(maxTokens, tokens + rate * (now - lastRefill) / 1000); and
\* when the bucket was left empty and 1/rate seconds have passed, that call is
\* allowed and the next one with the same timestamp is denied.
LinearRefill ==
  \A k \in Keys : \A i \in Executions(k) :
    LET e == hist[k][i] IN
    e.prev # <<>> =>
      LET p == e.prev[1] IN
      /\ e.seen = Min(MaxTokensOf(k) * 1000,
                      p.tokens + (RateOf(k) * (e.now - p.now) * 1000) \div windowMs)
      /\ (p.tokens = 0 /\ (e.now - p.now) * RateOf(k) = windowMs) =>
           /\ e.ok
           /\ (i < Len(hist[k]) /\ hist[k][i + 1].now = e.now) => ~hist[k][i + 1].ok

\* An empty bucket waited 1/rate seconds, one call was allowed and the next denied.
OneTokenBack ==
  \E k \in Keys : \E i \in Executions(k) :
    /\ hist[k][i].prev # <<>>
    /\ hist[k][i].prev[1].tokens = 0
    /\ (hist[k][i].now - hist[k][i].prev[1].now) * RateOf(k) = windowMs
    /\ hist[k][i].ok
    /\ i < Len(hist[k])
    /\ hist[k][i + 1].now = hist[k][i].now
    /\ ~hist[k][i + 1].ok

\* C4: every token count, as persisted and as computed inside a check, lies in
\* 0..maxTokens.
TokensInRange ==
  \A k \in Keys :
    /\ kv[k] # <<>> =>
         /\ ParseTokens(kv[k][1].data) >= 0
         /\ ParseTokens(kv[k][1].data) <= MaxTokensOf(k) * 1000
    /\ \A i \in Executions(k) :
         /\ hist[k][i].seen >= 0
         /\ hist[k][i].seen <= MaxTokensOf(k) * 1000

\* C6: whatever the failure to reach the coordination store, a call returns
\* Allowed: it never raises and is never denied without the store's answer.
FailsOpen ==
  \A c \in Callers : lim[c].result # "raised"


---------------------------------------------------------------------------
(* Job queue and fleet: properties                                         *)

\* C5: every request sent upstream was preceded by a take for its identity and
\* a takeGlobal that both returned Allowed. The worker's create and update
\* calls go out with fetch and no limiter call at all.
UpstreamGuarded == \A r \in upstreamLog : r.takeOk /\ r.takeGlobalOk

Wrap(seq) == [i \in 1..Len(seq) |-> <<seq[i]>>]

\* C7: after an addTasks(Y) that ran with no other operation in between,
\* whatever the backlog held before, the successive getNextTask calls return
\* the elements of Y in order and then Empty, and nothing else is in the backlog
ReplacesBacklog ==
  lastAdd.valid =>
    LET Y == lastAdd.Y
    IN \/ \E k \in 0..Len(Y) :
            /\ lastAdd.got = Wrap(SubSeq(Y, 1, k))
            /\ ReturnedAll(job_queue) = SubSeq(Y, k + 1, Len(Y))
       \/ /\ lastAdd.got = Wrap(Y) \o <<Null>>
          /\ job_queue = <<>>

\* C7, its case: a batch of two replaced a backlog that was not empty, and the
\* calls since have returned its two tasks and then Empty
BacklogReplacedAndDrained ==
  /\ lastAdd.valid
  /\ lastAdd.replaced
  /\ Len(lastAdd.Y) >= 2
  /\ lastAdd.got = Wrap(lastAdd.Y) \o <<Null>>

\* C8: the tasks of one batch are returned, across the instances, in the order
\* of the batch; and a getNextTask on an empty backlog ends in the same step
\* with Empty, leaving the backlog empty and the tick over
FifoOrder ==
  /\ [](\A i, j \in 1..Len(popLog) :
          (i < j /\ popLog[i][1] = popLog[j][1]) => popLog[i][2] < popLog[j][2])
  /\ [][\A n \in Insts :
          (ConsumerTick(n) /\ job_queue = <<>>) =>
             (cons'[n] = IdleCons /\ job_queue' = <<>> /\ popLog' = popLog)]_vars

TagsOn(n) == {workers[n][w].tag : w \in DOMAIN workers[n]}

\* C8, its case: the two tasks of one batch went to two instances, the first to
\* one and the second to the other, and a later call returned Empty
BatchSplitThenEmpty ==
  /\ \E b \in {BatchId(a) : a \in AddCalls} : \E n, m \in Insts :
       n # m /\ <<b, 1>> \in TagsOn(n) /\ <<b, 2>> \in TagsOn(m)
  /\ lastAdd.valid
  /\ lastAdd.got # <<>>
  /\ lastAdd.got[Len(lastAdd.got)] = Null

\* The workers made for a task, fleet-wide, the dead ones counted
Holders(tag) ==
  UNION {{<<n, w>> : w \in {v \in DOMAIN workers[n] : workers[n][v].tag = tag}} : n \in Insts}
InHand(tag) == {n \in Insts : cons[n].pc = "got" /\ cons[n].reply[1].tag = tag}
InBacklog(tag) == \E i \in 1..Len(job_queue) : job_queue[i].tag = tag

\* C9: each task is returned by at most one getNextTask call, at most one
\* worker fleet-wide is ever made for it (the dead ones counted), and a task
\* that was returned is not in the backlog, also after a crash
AtMostOnce ==
  /\ \A i, j \in 1..Len(popLog) : i # j => popLog[i] # popLog[j]
  /\ \A i \in 1..Len(popLog) :
       /\ ~InBacklog(popLog[i])
       /\ Cardinality(Holders(popLog[i])) + Cardinality(InHand(popLog[i])) <= 1
  /\ \A n \in Insts : \A w \in DOMAIN workers[n] :
       \E i \in 1..Len(popLog) : popLog[i] = workers[n][w].tag

\* C9, its case: both instances have dequeued; one task was lost with the
\* instance that had it in hand, and the other instance has made a worker
TaskLostInCrash ==
  \E i, j \in 1..Len(popLog) :
    /\ Holders(popLog[i]) = {} /\ InHand(popLog[i]) = {}
    /\ \E nw \in Holders(popLog[j]) : workers[nw[1]][nw[2]].alive

\* C10: once every instance has handled the STOP, and until the next addTasks,
\* no worker on any instance is active
StopHaltsAll ==
  stopDone => \A n \in Insts : \A w \in DOMAIN workers[n] :
                ~(workers[n][w].alive /\ workers[n][w].active)


---------------------------------------------------------------------------
(* JobWorker: properties                                                   *)

IsCall(e) == e.kind = "create" \/ e.kind = "update"
Positions == 1..Len(trace)

\* C11: stop() makes the worker inactive whatever it is doing, a second stop()
\* changes nothing, and an inactive worker never becomes active again
StopIdempotent ==
  /\ [](jw.pc # "none" => (~stop(jw).active /\ stop(stop(jw)) = stop(jw)))
  /\ [][(JwStop => ~jw'.active) /\ (~jw.active => ~jw'.active)]_vars

\* C11, its case: a worker in its polling phase was stopped, and stopped again
\* when it had returned
StoppedTwice ==
  /\ Count(trace, "stop") >= 2
  /\ Count(trace, "update") >= 1
  /\ jw.pc = "returned"
  /\ ~jw.active

Phase(me) ==
  IF me.pc \in {"create", "create delay"} THEN 1
  ELSE IF me.pc \in {"update", "poll delay"} THEN 2 ELSE 3

\* C12: the worker moves forward only: an update call is made only with an
\* application id, and with one no create call is made again
ForwardOnly ==
  [][/\ Phase(jw') >= Phase(jw)
     /\ Count(trace', "update") > Count(trace, "update") => jw'.applicationId # Null
     /\ Count(trace', "create") > Count(trace, "create") =>
          (jw.applicationId = Null /\ jw'.applicationId = Null)
     /\ jw.applicationId # Null => jw'.applicationId = jw.applicationId]_vars

\* C12, its case: after failed creates the id came, and updates have failed since
PollingAfterRetries ==
  /\ Count(trace, "create") >= 2
  /\ Count(trace, "update") = MaxUpdates
  /\ jw.pc = "poll delay"
  /\ jw.active

\* The success event of the confirmation: the one that follows an update call
IsConfirmation(i) ==
  /\ trace[i].kind = "log" /\ trace[i].type = "success"
  /\ \E j \in 1..(i - 1) : trace[j].kind = "update"

\* C13: a confirmed update makes the worker publish one success event and
\* become inactive, and no create or update call follows it
ConfirmationEndsWorker ==
  /\ [][\A resp \in UpdateResponses :
          (JwUpdateReturns(resp) /\ updateApplication(resp)) =>
             /\ trace' = Append(trace, publishLog("success"))
             /\ ~jw'.active
             /\ jw'.pc = "returned"]_vars
  /\ [](\A i \in Positions : IsConfirmation(i) =>
          /\ ~jw.active
          /\ jw.pc = "returned"
          /\ \A j \in Positions : j > i => (~IsCall(trace[j]) /\ trace[j].kind # "log"))

\* C13, its case: the second update was confirmed, and a stop() came afterwards
ConfirmedThenStopped ==
  /\ Count(trace, "update") = 2
  /\ \E i \in Positions : IsConfirmation(i) /\ i < Len(trace) /\ trace[Len(trace)].kind = "stop"

Shape(seq) == [i \in 1..Len(seq) |-> <<seq[i].kind, seq[i].type>>]
WithoutStops(seq) == SelectSeq(seq, LAMBDA e : e.kind # "stop")
IsPrefix(a, b) == Len(a) <= Len(b) /\ a = SubSeq(b, 1, Len(a))
ExpectedIdealRun ==
  << <<"create", "">>, <<"log", "success">>, <<"update", "">>, <<"log", "success">> >>

IsRetryDelay(e) == e.kind = "delay" /\ e.ms = CreateRetryDelayMs
RetryDelaysIn(i, j) == {d \in (i + 1)..(j - 1) : IsRetryDelay(trace[d])}

\* C15: between two create attempts that follow each other lies exactly one
\* delay of 5 s; n failed attempts make n delays, and the worker that is
\* polling has made exactly n + 1 create attempts
CreateRetryDelay ==
  /\ \A i, j \in Positions :
       (/\ i < j /\ trace[i].kind = "create" /\ trace[j].kind = "create"
        /\ \A m \in (i + 1)..(j - 1) : trace[m].kind # "create")
       => Cardinality(RetryDelaysIn(i, j)) = 1
  /\ LET creates == Count(trace, "create")
         delays == Cardinality({d \in Positions : IsRetryDelay(trace[d])})
     IN /\ creates \in {delays, delays + 1}
        /\ jw.pc = "create delay" => creates = delays
        /\ jw.pc \in {"create", "update", "poll delay"} => creates = delays + 1
        /\ creates <= MaxCreates

\* C15, its case: three attempts failed, one of them by an error, the fourth
\* gave the id, and the worker polls
FourthCreateSucceeded ==
  /\ Count(trace, "create") = 4
  /\ Count(trace, "stop") = 0
  /\ \E i \in Positions : trace[i].kind = "log" /\ trace[i].type = "error"
  /\ jw.pc = "update"

\* C16: a stop() leaves the call or the delay under way as it is, and after a
\* stop() the worker starts no create and no update call
CooperativeStop ==
  /\ [][JwStop => (jw'.pc = jw.pc /\ jw'.applicationId = jw.applicationId)]_vars
  /\ [](\A i, j \in Positions : (i < j /\ trace[i].kind = "stop") => ~IsCall(trace[j]))

\* C16, its case: the stop() came with the create call in flight; the call came
\* back with the id, the event was published, and the worker returned
StoppedInFlight ==
  /\ \E i, j \in Positions :
       /\ i < j
       /\ trace[i].kind = "stop" /\ trace[i - 1].kind = "create"
       /\ trace[j].kind = "log" /\ trace[j].type = "success"
  /\ jw.pc = "returned"
  /\ jw.applicationId # Null

\* C17: whatever the create and update calls come to, the loop never ends with
\* an error: an active worker is at a call or in a delay, and a worker that
\* has returned is inactive
NeverRaises ==
  /\ jw.pc # "raised"
  /\ jw.active => jw.pc \in {"create", "create delay", "update", "poll delay"}
  /\ jw.pc = "returned" => ~jw.active

\* C17, its case: a create call threw and was retried, updates have failed,
\* and the worker is still at it
StillTryingAfterErrors ==
  /\ \E i \in Positions : trace[i].kind = "log" /\ trace[i].type = "error"
  /\ Count(trace, "update") = 2
  /\ jw.pc = "poll delay"
  /\ jw.active


---------------------------------------------------------------------------
(* Session store and proxy path: properties                                *)

CookieHeader(rec) == rec.headers["Cookie"][1]
InJar(rec, name) == {i \in 1..Len(rec.jar) : rec.jar[i].name = name}

\* C18: the bearer token, the CSRF token and the cookies of every upstream
\* request are those uploaded for the identity the request resolved to, and the
\* caller's own Cookie and Authorization headers are not passed on
CredentialsBound ==
  /\ \A rec \in sent :
       /\ rec.headers["Authorization"] = <<TokenOf(rec.candidateId)>>
       /\ rec.headers["X-Csrf-Token"] \in {<<>>, <<CsrfOf(rec.candidateId)>>}
       /\ \A i \in 1..Len(CookieHeader(rec)) : CookieHeader(rec)[i][2][1] = rec.candidateId
       /\ rec.headers["cookie"] = <<>>
       /\ rec.headers["authorization"] = <<>>
  /\ \A r \in ReqIds : reqs[r].ctx # <<>> =>
       /\ reqs[r].ctx[1].candidateId = Resolve(reqs[r].input)
       /\ reqs[r].ctx[1].session.candidateId = reqs[r].ctx[1].candidateId

\* C18, its case: two requests, each naming the other's identity in a weaker
\* place, were in the chain together and both went upstream with cookies
BothIdentitiesForwarded ==
  /\ \A c \in Identities : \E rec \in sent : rec.candidateId = c /\ CookieHeader(rec) # <<>>
  /\ \A r \in ReqIds : reqs[r].pc = "upstream"

\* C19: no cookie whose expires time is earlier than the time of the forward
\* is in the Cookie header sent upstream
NoExpiredCookieSent ==
  \A rec \in sent : \A i \in 1..Len(CookieHeader(rec)) :
    \A j \in InJar(rec, CookieHeader(rec)[i][1]) :
      ~(rec.jar[j].expires # <<>> /\ rec.jar[j].expires[1] < rec.at)

\* d is the host or a parent domain of it
DomainSuffix(d, host) ==
  \/ d = host
  \/ d # <<>> /\ Len(d) < Len(host) /\ EndsWith(host, d) /\ host[Len(host) - Len(d)] = "."
Unexpired(cookie, now) == cookie.expires = <<>> \/ cookie.expires[1] >= now

\* C20: for a regional target host the Cookie header holds exactly the
\* unexpired cookies of the jar whose domain is a domain suffix of the host
CookieRouting ==
  \A rec \in sent : rec.host \in {HostUS, HostCA} =>
    {CookieHeader(rec)[i][1] : i \in 1..Len(CookieHeader(rec))} =
    {rec.jar[j].name : j \in {m \in 1..Len(rec.jar) :
        Unexpired(rec.jar[m], rec.at) /\ DomainSuffix(StripDot(rec.jar[m].domain), rec.host)}}

---------------------------------------------------------------------------
(* Session store called directly: properties                               *)

\* The second of a read of the store
SecondOf(read) == read.ms \div 1000
\* A cookie has a name, a value and a domain
HasFields(cookie) == cookie.name # "" /\ cookie.value # <<>> /\ cookie.domain # <<>>
\* What a cookie was given as, the defaults aside
Essence(cookie) ==
  [name |-> cookie.name, value |-> cookie.value, domain |-> cookie.domain,
   expires |-> cookie.expires]
EssenceOf(cookies) == [i \in DOMAIN cookies |-> Essence(cookies[i])]

\* C21: a get that follows an upsert returns exactly the cookies of the
\* upsert's input that have a name, a value and a domain and are unexpired at
\* the time of the get, in the order of the input.
RoundTrip ==
  seen.op = "get" /\ seen.result # Null /\ seen.input # <<>> =>
    EssenceOf(seen.result[1].cookies) =
      EssenceOf(SelectSeq(seen.input[1].cookies,
                          LAMBDA c : HasFields(c) /\ Unexpired(c, SecondOf(seen))))

\* C22: a get made after the session's expiresAt returns nothing and leaves
\* neither the record nor the index entry of the identity; a get made before
\* it returns the session; get and list return no session past its expiresAt.
LazyExpiry ==
  /\ seen.op = "get" /\ seen.input # <<>> =>
       /\ SecondOf(seen) > seen.input[1].expiresAt =>
            seen.result = Null /\ ~seen.record /\ ~seen.indexed
       /\ SecondOf(seen) < seen.input[1].expiresAt => seen.result # Null
       /\ seen.result # Null => seen.result[1].expiresAt >= SecondOf(seen)
  /\ seen.op = "list" =>
       \A i \in DOMAIN seen.result : seen.result[i].expiresAt >= SecondOf(seen)

\* C23: resume(id) leaves no pause key of id; on an identity that has none it
\* changes neither the sessions nor the pause keys; on one that is not paused
\* isPaused(id) stays false. A second resume(id) thus finds the state the
\* first one left and leaves it.
ResumeIdempotent ==
  [][\A c \in Identities :
       resumeCandidate(c) =>
         /\ pauseKeys'[c] = <<>>
         /\ sess' = sess /\ sessList' = sessList
         /\ pauseKeys[c] = <<>> => pauseKeys' = pauseKeys
         /\ ~IsPausedReturns(c) =>
              ~IsPausedReturns(c)' /\ GetPausedUntilReturns(c)' = Null]_vars

\* resume was called twice, a second apart, on an identity never paused
ResumedTwice ==
  /\ \E e1, e2 \in sessEvents :
       /\ e1.type = "session:resume" /\ e2.type = "session:resume"
       /\ e1.candidateId = "c1" /\ e2.candidateId = "c1"
       /\ e1.timestamp < e2.timestamp
  /\ ~\E e \in sessEvents : e.type = "session:pause"
  /\ pauseKeys["c1"] = <<>>

\* C24: while a pause of id is in force isPaused(id) is true exactly before its
\* pausedUntil, and a read that finds it over leaves no key; a step that
\* changes the sessions or the index changes no pause key and no isPaused(id),
\* and a step that changes a pause key changes no session and no get(id).
PauseInForce ==
  \A c \in Identities :
    lastPause[c] # <<>> => (IsPausedReturns(c) <=> DateNow < lastPause[c][1])
PauseReadCleans ==
  /\ seen.op = "isPaused" => (seen.result = <<FALSE>> => ~seen.record)
  /\ seen.op = "getPausedUntil" => (seen.result = Null => ~seen.record)
PauseFrame ==
  /\ sess' # sess \/ sessList' # sessList =>
       /\ pauseKeys' = pauseKeys
       /\ \A c \in Identities : IsPausedReturns(c)' = IsPausedReturns(c)
  /\ pauseKeys' # pauseKeys =>
       /\ sess' = sess /\ sessList' = sessList
       /\ \A c \in Identities : GetReturns(c)' = GetReturns(c)
---------------------------------------------------------------------------
(* The forwarder: properties                                               *)

\* The x-target-domain header of a request is recognized
Recognized(input) == input.target # <<>> /\ Includes(input.target, Amazon)
\* What the lower tiers give: the path and Host convention, else the primary region
LowerTiers(input) == IF input.ca THEN HostCA ELSE HostUS

ClaimedAllowList == safeHeaders \cup {"x-worker-id"}
Injected == {"Authorization", "Cookie", "X-Csrf-Token"}

\* C26: the upstream request carries exactly the caller's headers that are in
\* the allow-list (the worker identifier among them), with the caller's
\* values, and the injected Authorization, CSRF and Cookie headers.
AllowListOnly ==
  \A rec \in sent : \A h \in HeaderNames :
    h \notin Injected =>
      IF h \in ClaimedAllowList /\ h \in DOMAIN RequestHeaders
        THEN rec.headers[h] = RequestHeaders[h]
        ELSE rec.headers[h] = <<>>

\* C27: a request makes at most one upstream attempt and gets one response at
\* most, exactly one once it is done: an upstream 429 gives a 429 with the
\* upstream's retry-after or the default, an error 502, a timeout 504.
OneAttemptOneAnswer ==
  \A r \in ReqIds :
    LET req == reqs[r]
    IN /\ req.attempts <= 1
       /\ Cardinality({rec \in sent : rec.input = req.input}) <= 1
       /\ Len(req.answers) <= 1
       /\ req.pc \in {"done", "destroyed"} => Len(req.answers) = 1
       /\ req.event # <<>> =>
            LET ev == req.event[1]
            IN /\ req.attempts = 1
               /\ req.answers[1].status = ev.status
               /\ ev.kind = "error" => req.answers[1].status = 502
               /\ ev.kind = "timeout" => req.answers[1].status = 504
               /\ ev.kind = "response" /\ ev.status = 429 =>
                    req.answers[1].retryAfter =
                      (IF ev.retryAfter # <<>> THEN ev.retryAfter ELSE <<"5">>)

\* The upstream request timed out, was destroyed, and its error event came
TimedOutThenError ==
  /\ reqs["r1"].pc = "done"
  /\ reqs["r1"].event # <<>> /\ reqs["r1"].event[1].kind = "timeout"
  /\ reqs["r1"].status = 504

\* The identity a request names: body, else header, else query
NamedIdentity(input) ==
  IF input.body # "" THEN input.body
  ELSE IF input.header # "" THEN input.header
  ELSE input.query

\* C30: the candidateContext step takes the identity from the body, else the
\* header, else the query; with none, or with no unexpired session for it, it
\* answers 400, and such a request touches no rate bucket and makes no
\* upstream request.
ContextStep ==
  \A r \in ReqIds :
    reqs[r].pc = "candidateContext" /\ reqs'[r].pc # "candidateContext" =>
      LET id == NamedIdentity(reqs[r].input)
          session == IF id = "" THEN Null ELSE GetReturns(id)
      IN IF session = Null
           THEN reqs'[r].pc = "done" /\ reqs'[r].status = 400 /\ reqs'[r].ctx = <<>>
           ELSE /\ reqs'[r].pc = "rateLimit"
                /\ reqs'[r].ctx = <<[candidateId |-> id, session |-> session[1]]>>
Turned400 ==
  \A r \in ReqIds :
    reqs[r].pc # "none" /\ reqs[r].ctx = <<>> =>
      /\ reqs[r].took = <<>> /\ reqs[r].attempts = 0
      /\ ~\E rec \in sent : rec.input = reqs[r].input
      /\ reqs[r].pc = "done" => reqs[r].answers = <<[status |-> 400, retryAfter |-> <<>>]>>
IdentityResolved == []Turned400 /\ [][ContextStep]_vars

\* A request that names an identity without a session in its body and one
\* with a session in its header was answered 400 by the context step
BodyWithoutSession ==
  /\ reqs["r1"].pc = "done" /\ reqs["r1"].status = 400
  /\ reqs["r1"].input.body = "c2" /\ reqs["r1"].input.header = "c1"
  /\ GetSession("c1") # Null
  /\ lastUp["c2"] # <<>>

---------------------------------------------------------------------------
(* The control routes: properties                                          *)

\* The items of a side that have both of their fields
HasSession(item) == item # NullItem /\ item[1].candidateId # "" /\ item[1].authToken # ""
HasJob(item) == item # NullItem /\ item[1].jobId # "" /\ item[1].scheduleId # ""
\* The cross-product of two sides, the sessions in order and the jobs in order
\* for each
CrossProduct(sessions, jobs) ==
  LET ss == SelectSeq(sessions, HasSession)
      js == SelectSeq(jobs, HasJob)
  IN [k \in 1..(Len(ss) * Len(js)) |->
        LET s == ss[((k - 1) \div Len(js)) + 1][1]
            j == js[((k - 1) % Len(js)) + 1][1]
        IN [jobId |-> j.jobId, scheduleId |-> j.scheduleId, candidateId |-> s.candidateId,
            authToken |-> s.authToken,
            cookieHeader |-> s.cookieHeader]]

\* C28: a /start request that is done has put exactly the cross-product of
\* the sessions that have candidateId and authToken with the jobs that have
\* jobId and scheduleId in the backlog and answered 200; when that
\* cross-product is empty it has answered 400 and the backlog is the one it
\* found.
StartEnqueues ==
  ctl.route = "start" /\ ctl.pc = "done" =>
    LET body == ctl.body[1]
        expected == CrossProduct(NormalSessions(body), NormalJobs(body))
    IN IF expected = <<>>
         THEN ctl.status = 400 /\ job_queue = ctl.before
         ELSE ctl.status = 200 /\ job_queue = expected

\* C29: a /stop request that is done has called broadcastStop and answered
\* 200, also when the publish failed.
StopAlways200 ==
  ctl.route = "stop" /\ ctl.pc = "done" => nstops > 0 /\ ctl.status = 200

---------------------------------------------------------------------------
(* The buckets over a longer time: properties                              *)

TtlMs == BucketTtlSeconds * 1000
\* The last execution on key k, and whether the key holds a value
LastCall(k) == hist[k][Len(hist[k])]
Alive(k) == Get(k) # NoData
\* Execution i on k found no value and ran as on a fresh bucket
RanFresh(k, i) == hist[k][i].prev = <<>> /\ hist[k][i].seen = MaxTokensOf(k) * 1000
                    /\ hist[k][i].ok

\* C32 as stated: the value of a key that has been called is there while less
\* than 60 s have passed since the last call on it, whatever that call
\* returned, and gone afterwards; a call that comes 60 s or more after the
\* call before it runs as on a fresh bucket.
ExpiresAfterIdle ==
  \A k \in Keys :
    /\ hist[k] # <<>> => (Alive(k) <=> clock < LastCall(k).at + TtlMs)
    /\ \A i \in Executions(k) :
         i > 1 /\ hist[k][i].at >= hist[k][i - 1].at + TtlMs => RanFresh(k, i)

\* C32 amended: the value of a key is there while less than 60 s have passed
\* since the last allowed call on it, and gone afterwards: a denied call does
\* not keep it alive. A call that comes 60 s or more after the last allowed
\* call runs as on a fresh bucket with maxTokens tokens and is allowed; one
\* that comes earlier finds the value that call left.
ExpiresAfterLastGrant ==
  \A k \in Keys :
    /\ lastOk[k] = <<>> => ~Alive(k) /\ \A i \in Executions(k) : ~hist[k][i].ok
    /\ lastOk[k] # <<>> => (Alive(k) <=> clock < lastOk[k][1].at + TtlMs)
    /\ lastOk[k] # <<>> /\ Alive(k) =>
         Get(k) = FormatData(lastOk[k][1].tokens, lastOk[k][1].now)
    /\ \A i \in Executions(k) :
         /\ i = 1 => RanFresh(k, i)
         /\ hist[k][i].prev = <<>> => RanFresh(k, i)
         /\ i > 1 =>
              LET grants == {j \in 1..(i - 1) : hist[k][j].ok}
                  g == CHOOSE j \in grants : \A o \in grants : o <= j
              IN (hist[k][i].prev = <<>>) <=> (hist[k][i].at >= hist[k][g].at + TtlMs)

\* A call was denied, and a call less than 60 s after it but 60 s after the
\* last allowed one found no value
DeniedDidNotRefresh ==
  \E k \in Keys : \E i \in Executions(k) :
    /\ i > 2
    /\ ~hist[k][i - 1].ok
    /\ hist[k][i].at < hist[k][i - 1].at + TtlMs
    /\ hist[k][i].prev = <<>> /\ hist[k][i].ok

\* The timestamps the executions on k carried
Timestamps(k) == {hist[k][i].now : i \in Executions(k)}
Earliest(k) == CHOOSE t \in Timestamps(k) : \A u \in Timestamps(k) : t <= u
Latest(k) == CHOOSE t \in Timestamps(k) : \A u \in Timestamps(k) : u <= t
AllowedCount(k) == Cardinality({i \in Executions(k) : hist[k][i].ok})

\* C35: the number of calls allowed on a key is at most burst + rate * (latest
\* timestamp - earliest timestamp) / 1000, whatever the order in which the
\* scripts of the instances run and whenever the key expires.
AllowedWithinBudget ==
  \A k \in Keys :
    hist[k] # <<>> =>
      AllowedCount(k) * windowMs
        <= MaxTokensOf(k) * windowMs + RateOf(k) * (Latest(k) - Earliest(k))

\* A step in which a script ran on k and denied
DeniedStep(k) == Len(hist'[k]) = Len(hist[k]) + 1 /\ ~hist'[k][Len(hist'[k])].ok
DeniedWritesNothing == \A k \in Keys : DeniedStep(k) => kv'[k] = kv[k]
\* Execution j on k carries the timestamp the denial i asked to wait for, and
\* no call was allowed between the two
RetryOf(k, i, j) ==
  /\ i < j
  /\ ~hist[k][i].ok
  /\ hist[k][j].now = hist[k][i].now + hist[k][i].retryAfterMs
  /\ \A m \in (i + 1)..(j - 1) : ~hist[k][m].ok
RetrySufficient ==
  \A k \in Keys : \A i, j \in Executions(k) :
    /\ ~hist[k][i].ok => hist[k][i].retryAfterMs > 0
    /\ RetryOf(k, i, j) => hist[k][j].ok

\* C39: a denied call leaves the key's stored value as it was, and a call
\* whose timestamp is that of a denied call plus its retryAfterMs, with no
\* allowed call in between, is allowed.
DenialCostsNothing == []RetrySufficient /\ [][DeniedWritesNothing]_vars

\* A call was denied after time had passed since the last allowed one, and the
\* call made retryAfterMs later was allowed
RetryHonoured ==
  \E k \in Keys : \E i, j \in Executions(k) :
    /\ RetryOf(k, i, j)
    /\ hist[k][i].prev # <<>> /\ hist[k][i].now > hist[k][i].prev[1].now
    /\ hist[k][j].ok

---------------------------------------------------------------------------
(* rateLimitMiddleware with the limiter behind it: properties              *)

OkCount(k) == Cardinality({i \in Executions(k) : hist[k][i].ok})
\* The tokens the key holds, in thousandths: a key never written is full
TokensLeft(k) == IF Get(k) = NoData THEN MaxTokensOf(k) * 1000 ELSE ParseTokens(Get(k))
\* The requests the per-identity limit has let pass, and those it has rejected
PassedPerId == {r \in ReqIds : Len(reqs[r].took) = 2}
RejectedPerId == {r \in ReqIds : reqs[r].took = <<"take">> /\ reqs[r].status = 429}
RejectedGlobal == {r \in ReqIds : Len(reqs[r].took) = 2 /\ reqs[r].status = 429}

\* C38: take runs before takeGlobal and is not rolled back. Every request
\* that reached the global check, the ones it rejected included, has taken
\* one token of its identity's bucket, and the tokens stay taken; the script of
\* the global bucket has run only for requests the per-identity limit let
\* pass, so a request rejected by the per-identity limit leaves the global
\* bucket as it was; a rejected request makes no upstream call.
TakeNotRolledBack ==
  LET k == CandKey("c1")
  IN /\ OkCount(k) >= Cardinality(PassedPerId)
     /\ TokensLeft(k) = (MaxTokensOf(k) - OkCount(k)) * 1000
     /\ Len(hist[GlobalKey]) <= Cardinality(PassedPerId)
     /\ TokensLeft(GlobalKey) = (MaxTokensOf(GlobalKey) - OkCount(GlobalKey)) * 1000
     /\ \A r \in ReqIds :
          /\ reqs[r].took # <<>> => reqs[r].took[1] = "take"
          /\ r \in RejectedPerId \cup RejectedGlobal =>
               reqs[r].attempts = 0 /\ reqs[r].pc = "done"

\* Of two requests of one identity the global limit rejected the second, after
\* the identity's bucket had given it its last token
GlobalRejectedAfterTake ==
  /\ RejectedGlobal # {}
  /\ OkCount(CandKey("c1")) = 2
  /\ TokensLeft(CandKey("c1")) = (MaxTokensOf(CandKey("c1")) - 2) * 1000
  /\ sent # {}

---------------------------------------------------------------------------
(* One JobWorker followed step by step: further properties                 *)

\* What the worker does next after an update call that came to resp
WaitsAfterUpdate(resp) ==
  IF updateApplication(resp) THEN jw'.pc = "returned"
  ELSE /\ jw'.pc = "poll delay"
       /\ IF Throws(resp) THEN trace' = Append(trace, Delay(PollCatchDelayMs))
          ELSE \E ms \in PollDelayMinMs..(PollDelayMinMs + PollDelaySpreadMs) :
                 trace' = Append(trace, Delay(ms))

\* C33: in the polling loop an update call that ends in an exception is
\* followed by the 5 s delay, one that returns a response that does not
\* confirm by the jittered poll delay.
UpdateExceptionWaitsFive ==
  [][\A resp \in UpdateResponses : JwUpdateReturns(resp) => WaitsAfterUpdate(resp)]_vars

\* The loop has ended; it has ended by the confirmation
LoopEnded == jw.pc = "returned"
Done == LoopEnded /\ ~jw.active /\ trace[Len(trace)].kind = "log"
          /\ trace[Len(trace)].type = "success" /\ Count(trace, "update") > 0

\* C40: a worker that is never stopped, whose upstream gives an application
\* id and a confirmation in the end, reaches Done, inactive; and once stop()
\* has been called the loop ends, whatever the upstream answers.
WorkerEnds == (<>Stopped \/ <>Done) /\ (Stopped ~> LoopEnded)

\* The worker reached Done without a stop after create calls and an update
\* call that failed
DoneAfterFailures ==
  /\ Done /\ ~Stopped
  /\ Count(trace, "create") > 2
  /\ Count(trace, "update") > 1


---------------------------------------------------------------------------
(* The forwarder: where the credentials go                                 *)

\* The two supported regional hosts
RegionalHosts == {HostUS, HostCA}
\* The upstream request carries the bearer token, the CSRF token or cookies
CarriesCredentials(rec) == \E h \in Injected : rec.headers[h] # <<>>

\* C34: the host that receives a session's bearer token, CSRF token and
\* cookies is one of the two supported regional hosts, whatever the
\* x-target-domain header, the path and the Host header of the request.
CredentialsToRegionalHosts ==
  \A rec \in sent : CarriesCredentials(rec) => rec.host \in RegionalHosts


---------------------------------------------------------------------------
(* The session store under concurrent calls                                *)

\* The record of the last completed upsert of an identity is still due
SessionDue(c) == lastUp[c] # <<>> /\ nowS < lastUp[c][1].expiresAt
\* The pause last written for an identity is still in force
PauseDue(c) == lastPause[c] # <<>> /\ DateNow < lastPause[c][1]

\* C36: a session written by a completed upsert(id) is returned by get(id)
\* until its own expiresAt, whatever get(id) calls of other instances run
\* next to it: the delete of a get that has read an expired record removes
\* no newer record written in between, and the cleanup of an isPaused that
\* has read a pause that is over removes no pause written in between.
NewerRecordSurvives ==
  \A c \in Identities :
    /\ SessionDue(c) =>
         /\ GetReturns(c) # Null
         /\ GetReturns(c)[1].expiresAt = lastUp[c][1].expiresAt
         /\ c \in sessList
    /\ PauseDue(c) => IsPausedReturns(c)


---------------------------------------------------------------------------
(* The queue under overlapping addTasks calls                              *)

\* The batch an element of the list came with
BatchOf(el) == el.tag[1]
\* The batches that addTasks calls are adding
BeingAdded == {adds[a].id : a \in {o \in AddCalls : AddInProgress(o)}}

\* Once no addTasks call is in progress the list holds tasks of one batch
OneBatchLeft ==
  BeingAdded = {} =>
    \A i, j \in DOMAIN job_queue : BatchOf(job_queue[i]) = BatchOf(job_queue[j])
\* A getNextTask that runs while an addTasks call is in progress gets nothing
\* or a task of a batch being added
PopsBatchBeingAdded ==
  \A n \in Insts :
    ConsumerTick(n) /\ BeingAdded # {} =>
      \/ LPopReply(job_queue) = Null
      \/ BatchOf(LPopReply(job_queue)[1]) \in BeingAdded

\* C37: when two addTasks calls overlap and both complete, the tasks left are
\* those of one of the two batches, never a mixture; and a getNextTask that
\* runs while an addTasks call is in progress returns Empty or a task of the
\* batch being added.
LatestBatchWinsConcurrently == []OneBatchLeft /\ [][PopsBatchBeingAdded]_vars


---------------------------------------------------------------------------
(* The log stream: properties                                              *)

\* How many times the callback of a stream has written a message
Written(b, id) == Cardinality({i \in DOMAIN streams[b].got : streams[b].got[i] = id})

\* C31: a message published by publishLog is written once by every handler
\* subscribed when it is published; a handler that subscribes later never
\* writes it; and a handler writes no message published after its
\* subscription has been torn down.
CurrentSubscribersOnly ==
  \A i \in DOMAIN streamLog : \A b \in StreamIds :
    /\ b \in streamLog[i].subscribed => Written(b, streamLog[i].id) = 1
    /\ b \in streamLog[i].later => Written(b, streamLog[i].id) = 0
    /\ b \in streamLog[i].closed => Written(b, streamLog[i].id) = 0

\* A message reached the one subscriber there was; the other stream subscribed
\* after it and got the next one only; the first was closed by then
LateJoinerMissedFirst ==
  /\ Len(streamLog) = 2
  /\ streamLog[1].subscribed = {"b1"} /\ "b2" \in streamLog[1].later
  /\ streamLog[2].subscribed = {"b2"} /\ "b1" \in streamLog[2].closed
  /\ streams["b1"].got = <<1>>
  /\ streams["b2"].got = <<2>>

====
